---- MODULE Spec2Model ----
(***************************************************************************)
(* Model of the translation orchestration core of local-translate-ai:      *)
(*   - TranslationService (translate, translateStreaming, translateBatch,  *)
(*     executeWithRetry, fetchWithTimeout, detectRepetitionLoop),           *)
(*   - the background script's request handlers (handleTranslateText,      *)
(*     handleTranslatePage, handleCancelTranslation),                       *)
(*   - the sanitization utilities applied to results.                      *)
(* Texts are TLA+ strings over an ASCII alphabet; positions are 1-based.   *)
(***************************************************************************)
EXTENDS Integers, Sequences, FiniteSets, TLC

(***************************************************************************)
(* String helpers (JavaScript String methods used by the source).          *)
(***************************************************************************)
CharAt(s, i) == SubSeq(s, i, i)

\* F applied to the value of v (v is evaluated once, before F)
Let(v, F(_)) == CHOOSE r \in {F(t) : t \in {v}} : TRUE

MinOf(S) == CHOOSE m \in S : \A n \in S : m <= n

MaxOf(S) == CHOOSE m \in S : \A n \in S : m >= n

Max2(a, b) == IF a >= b THEN a ELSE b

\* s.slice(0, n) for 0 <= n
SliceTo(s, n) == IF n >= Len(s) THEN s ELSE SubSeq(s, 1, n)

\* s.slice(-n) for n > 0
SliceLast(s, n) == IF n >= Len(s) THEN s ELSE SubSeq(s, Len(s) - n + 1, Len(s))

\* s.slice(-a, -b) for a > b > 0
SliceNeg(s, a, b) ==
  LET from == Max2(Len(s) - a, 0) + 1
      to   == Len(s) - b
  IN IF to < from THEN "" ELSE SubSeq(s, from, to)

Whitespace == {" ", "\n", "\t", "\r"}

RECURSIVE TrimStart(_)
TrimStart(s) ==
  IF s = "" THEN ""
  ELSE IF Head(s) \in Whitespace THEN TrimStart(Tail(s)) ELSE s

RECURSIVE TrimEnd(_)
TrimEnd(s) ==
  IF s = "" THEN ""
  ELSE IF CharAt(s, Len(s)) \in Whitespace THEN TrimEnd(SubSeq(s, 1, Len(s) - 1)) ELSE s

\* String.prototype.trim
Trim(s) == TrimEnd(TrimStart(s))

UpperToLower ==
  ("A" :> "a") @@ ("B" :> "b") @@ ("C" :> "c") @@ ("D" :> "d") @@ ("E" :> "e") @@
  ("F" :> "f") @@ ("G" :> "g") @@ ("H" :> "h") @@ ("I" :> "i") @@ ("J" :> "j") @@
  ("K" :> "k") @@ ("L" :> "l") @@ ("M" :> "m") @@ ("N" :> "n") @@ ("O" :> "o") @@
  ("P" :> "p") @@ ("Q" :> "q") @@ ("R" :> "r") @@ ("S" :> "s") @@ ("T" :> "t") @@
  ("U" :> "u") @@ ("V" :> "v") @@ ("W" :> "w") @@ ("X" :> "x") @@ ("Y" :> "y") @@
  ("Z" :> "z")

LowerLetters ==
  {"a", "b", "c", "d", "e", "f", "g", "h", "i", "j", "k", "l", "m",
   "n", "o", "p", "q", "r", "s", "t", "u", "v", "w", "x", "y", "z"}

LowerChar(c) == IF c \in DOMAIN UpperToLower THEN UpperToLower[c] ELSE c

RECURSIVE LowerStr(_)
LowerStr(s) == IF s = "" THEN "" ELSE LowerChar(Head(s)) \o LowerStr(Tail(s))

\* the literal lit (given in lower case) occurs in s at position i, ignoring
\* case (the /i flag of the patterns)
At(s, i, lit) ==
  /\ i >= 1
  /\ i + Len(lit) - 1 <= Len(s)
  /\ LowerStr(SubSeq(s, i, i + Len(lit) - 1)) = lit

\* number of whitespace characters of s starting at position i (\s*)
RECURSIVE WsRun(_, _)
WsRun(s, i) ==
  IF i > Len(s) THEN 0
  ELSE IF CharAt(s, i) \in Whitespace THEN 1 + WsRun(s, i + 1) ELSE 0

\* number of characters of [a-z_] (ignoring case) of s starting at position i
RECURSIVE WordRun(_, _)
WordRun(s, i) ==
  IF i > Len(s) THEN 0
  ELSE IF LowerChar(CharAt(s, i)) \in LowerLetters \cup {"_"} THEN 1 + WordRun(s, i + 1) ELSE 0

\* remove from s the characters at the positions in D
RECURSIVE RemovePositions(_, _)
RemovePositions(s, D) ==
  IF D = {} THEN s
  ELSE LET m == MaxOf(D)
       IN RemovePositions(SubSeq(s, 1, m - 1) \o SubSeq(s, m + 1, Len(s)), D \ {m})

(***************************************************************************)
(* utils/sanitize.ts                                                       *)
(***************************************************************************)
\* (?:system|user|assistant)? at position i: length of the role name or 0
RoleLen(s, i) ==
  IF At(s, i, "system") THEN 6
  ELSE IF At(s, i, "user") THEN 4
  ELSE IF At(s, i, "assistant") THEN 9
  ELSE 0

\* (?:system|user|assistant|human|bot) at position i
MarkerLen(s, i) ==
  IF RoleLen(s, i) > 0 THEN RoleLen(s, i)
  ELSE IF At(s, i, "human") THEN 5
  ELSE IF At(s, i, "bot") THEN 3
  ELSE 0

NumChatTemplatePatterns == 14

\* length of the match of CHAT_TEMPLATE_PATTERNS[k] at position i of s, 0 if none
PatternMatchLen(k, s, i) ==
  IF CharAt(s, i) \notin {"<", "["} THEN 0
  ELSE CASE k = 1  -> IF At(s, i, "<|im_start|>") THEN 12 + RoleLen(s, i + 12) ELSE 0
         [] k = 2  -> IF At(s, i, "<|im_end|>") THEN 10 ELSE 0
         [] k = 3  -> IF At(s, i, "[inst]") THEN 6 ELSE 0
         [] k = 4  -> IF At(s, i, "[/inst]") THEN 7 ELSE 0
         [] k = 5  -> IF At(s, i, "<<sys>>") THEN 7 ELSE 0
         [] k = 6  -> IF At(s, i, "</sys>>") THEN 7 ELSE 0
         [] k = 7  -> IF At(s, i, "</s>") THEN 4 ELSE IF At(s, i, "<s>") THEN 3 ELSE 0
         [] k = 8  -> IF At(s, i, "<|endoftext|>") THEN 13 ELSE 0
         [] k = 9  -> IF At(s, i, "<|end|>") THEN 7 ELSE 0
         [] k = 10 -> IF At(s, i, "<|eot_id|>") THEN 10 ELSE 0
         [] k = 11 -> IF At(s, i, "<|start_header_id|>")
                      THEN LET r == RoleLen(s, i + 19)
                           IN IF At(s, i + 19 + r, "<|end_header_id|>") THEN 19 + r + 17 ELSE 0
                      ELSE 0
         [] k = 12 -> IF At(s, i, "<|begin_of_text|>") THEN 17 ELSE 0
         [] k = 13 -> IF At(s, i, "<|") /\ MarkerLen(s, i + 2) > 0
                         /\ At(s, i + 2 + MarkerLen(s, i + 2), "|>")
                      THEN MarkerLen(s, i + 2) + 4 ELSE 0
         [] k = 14 -> IF At(s, i, "<|") /\ WordRun(s, i + 2) > 0
                         /\ At(s, i + 2 + WordRun(s, i + 2), "|>")
                      THEN WordRun(s, i + 2) + 4 ELSE 0
         [] OTHER  -> 0

\* some position of s can start a match: every pattern starts with < or [
HasOpener(s) == \E i \in 1..Len(s) : CharAt(s, i) \in {"<", "["}

\* result.replace(pattern, '') with a global pattern: leftmost matches, left
\* to right, non-overlapping, the removed text is not rescanned
RECURSIVE ReplacePattern(_, _, _)
ReplacePattern(k, s, from) ==
  LET M == {i \in from..Len(s) : PatternMatchLen(k, s, i) > 0}
  IN IF M = {} THEN (IF from > Len(s) THEN "" ELSE SubSeq(s, from, Len(s)))
     ELSE LET m == MinOf(M)
          IN SubSeq(s, from, m - 1) \o ReplacePattern(k, s, m + PatternMatchLen(k, s, m))

RECURSIVE ReplacePatternsFrom(_, _)
ReplacePatternsFrom(k, s) ==
  IF k > NumChatTemplatePatterns \/ ~HasOpener(s) THEN s
  ELSE Let(ReplacePattern(k, s, 1), LAMBDA t : ReplacePatternsFrom(k + 1, t))

\* result.replace(/lit$/i, '')
StripSuffix(s, lit) ==
  IF At(s, Len(s) - Len(lit) + 1, lit) THEN SubSeq(s, 1, Len(s) - Len(lit)) ELSE s

\* the loop over INCOMPLETE_OUTPUT_PATTERNS
StripIncomplete(s) ==
  Let(StripSuffix(s, "<|im_start"), LAMBDA s1 :
  Let(StripSuffix(s1, "<|im_"), LAMBDA s2 :
  Let(StripSuffix(s2, "<|"), LAMBDA s3 :
  Let(StripSuffix(s3, "[inst"), LAMBDA s4 : StripSuffix(s4, "<<sys")))))

\* replace(/\n{3,}/g, '\n\n'): drop every newline preceded by two newlines
CollapseNewlines(s) ==
  RemovePositions(s, {i \in 3..Len(s) :
     CharAt(s, i) = "\n" /\ CharAt(s, i - 1) = "\n" /\ CharAt(s, i - 2) = "\n"})

\* replace(/ {2,}/g, ' '): drop every space preceded by a space
CollapseSpaces(s) ==
  RemovePositions(s, {i \in 2..Len(s) : CharAt(s, i) = " " /\ CharAt(s, i - 1) = " "})

\* no character of s can take part in a match of the patterns above: each
\* pattern starts with <, [, a newline or a space, and trim() removes whitespace
NothingToRemove(s) == \A i \in 1..Len(s) : CharAt(s, i) \notin {"<", "[", "\n", " ", "\t", "\r"}

removeChatTemplateTokens(text) ==
  IF NothingToRemove(text) THEN text
  ELSE Let(ReplacePatternsFrom(1, text), LAMBDA r1 :
       Let(StripIncomplete(r1), LAMBDA r2 :
       Let(CollapseNewlines(r2), LAMBDA r3 :
       Let(CollapseSpaces(r3), LAMBDA r4 : Trim(r4)))))

\* the ASCII quote pairs; the CJK bracket quotes are outside the model's alphabet
\* the pairs removeWrappingQuotes tests, opening and closing character; the
\* corner brackets and the white corner brackets of the source are written
\* { } and [ ] here
QuotePairs == {<<"\"", "\"">>, <<"'", "'">>, <<"{", "}">>, <<"[", "]">>}

Includes(s, c) == \E i \in 1..Len(s) : CharAt(s, i) = c

\* trimmed.startsWith(c) / trimmed.endsWith(c) for a character c
StartsWith(s, c) == Len(s) >= 1 /\ CharAt(s, 1) = c

EndsWith(s, c) == Len(s) >= 1 /\ CharAt(s, Len(s)) = c

removeWrappingQuotes(text) ==
  Let(Trim(text), LAMBDA trimmed :
     IF \E q \in QuotePairs : StartsWith(trimmed, q[1]) /\ EndsWith(trimmed, q[2])
     THEN Let(IF Len(trimmed) >= 2 THEN SubSeq(trimmed, 2, Len(trimmed) - 1) ELSE "",
              LAMBDA inner :
                 IF /\ ~Includes(inner, CharAt(trimmed, 1))
                    /\ ~Includes(inner, CharAt(trimmed, Len(trimmed)))
                 THEN inner ELSE text)
     ELSE text)

\* length of the match of the anchored prefix pattern k at the start of s
PrefixMatchLen(k, s) ==
  CASE k = 1 ->
         \* /^(?:Here(?:'s| is) (?:the )?translation:?\s*)/i
         IF ~At(s, 1, "here") THEN 0
         ELSE LET a == IF At(s, 5, "'s") THEN 7 ELSE IF At(s, 5, " is") THEN 8 ELSE 0
              IN IF a = 0 \/ ~At(s, a, " ") THEN 0
                 ELSE LET b == IF At(s, a + 1, "the ") THEN a + 5 ELSE a + 1
                      IN IF ~At(s, b, "translation") THEN 0
                         ELSE LET c == IF At(s, b + 11, ":") THEN b + 12 ELSE b + 11
                              IN c - 1 + WsRun(s, c)
    [] k = 2 ->
         \* /^(?:The )?translation(?:\s+is)?:?\s*/i
         LET a == IF At(s, 1, "the ") /\ At(s, 5, "translation") THEN 5 ELSE 1
         IN IF ~At(s, a, "translation") THEN 0
            ELSE LET b == a + 11
                     w == WsRun(s, b)
                     c == IF w > 0 /\ At(s, b + w, "is") THEN b + w + 2 ELSE b
                     d == IF At(s, c, ":") THEN c + 1 ELSE c
                 IN d - 1 + WsRun(s, d)
    [] k = 3 ->
         \* /^(?:Translated text:?\s*)/i
         IF ~At(s, 1, "translated text") THEN 0
         ELSE LET c == IF At(s, 16, ":") THEN 17 ELSE 16
              IN c - 1 + WsRun(s, c)
    [] OTHER -> 0

ReplacePrefix(k, s) ==
  LET n == PrefixMatchLen(k, s)
  IN IF n = 0 THEN s ELSE IF n >= Len(s) THEN "" ELSE SubSeq(s, n + 1, Len(s))

\* the Japanese lead-ins are outside the model's alphabet
removeLLMPrefixes(text) ==
  Let(ReplacePrefix(1, text), LAMBDA r1 :
  Let(ReplacePrefix(2, r1), LAMBDA r2 :
  Let(ReplacePrefix(3, r2), LAMBDA r3 : Trim(r3))))

sanitizeTranslationResult(text) ==
  Let(text, LAMBDA t0 :
  Let(removeChatTemplateTokens(t0), LAMBDA r1 :
  Let(removeWrappingQuotes(r1), LAMBDA r2 : removeLLMPrefixes(r2))))

sanitizeAccumulatedResult(accumulated) == sanitizeTranslationResult(accumulated)

(***************************************************************************)
(* Bounds of the model.                                                    *)
(***************************************************************************)
\* largest retry count the settings may hold
MaxRetries == 2

\* largest number of CANCEL_TRANSLATION messages received
MaxCancels == 2

\* largest number of text units the content script returns for a page
MaxUnits == 2

\* largest number of content chunks one stream delivers
MaxChunks == 6

\* largest number of data lines one reader.read() returns
MaxLinesPerRead == 2

(***************************************************************************)
(* Inputs.                                                                 *)
(***************************************************************************)
RECURSIVE Rep(_, _)
Rep(s, n) == IF n = 0 THEN "" ELSE s \o Rep(s, n - 1)

\* the id of the request that is followed
RequestId == "r1"

\* source texts of a text request (lengths 2 and 101)
SourceTexts == {"hi", Rep("x", 101)}

\* text units a page supplies
UnitTexts == {"", " ", "ab", "cd"}

\* message contents the endpoint answers with in a non-streaming call
ReplyContents == {"", "X", "<|im_start|>assistant\n\"'Y'\"<|im_end|>"}

\* profile collections of the settings and profile ids of a request
ProfileCollections == {<< >>, <<"p1", "p2">>}

RequestedProfileIds == {"", "p2", "px"}

\* settings.activeProfileId
ActiveProfileIds == {"p2"}

(***************************************************************************)
(* Errors (name and message of the thrown Error object).                   *)
(***************************************************************************)
NoError == [name |-> "none", message |-> ""]

\* fetch rejects with a TypeError on a transport-level failure
NetworkError == [name |-> "TypeError", message |-> "NetworkError when attempting to fetch resource."]

\* fetch, response.json()/text() and reader.read() reject with an AbortError
\* DOMException when the controller passed to fetch is aborted
AbortError == [name |-> "AbortError", message |-> "The operation was aborted."]

CancelledError == [name |-> "Error", message |-> "Request was cancelled"]

UnknownRetryError == [name |-> "Error", message |-> "Unknown error during retry"]

ApiError == [name |-> "Error", message |-> "API error"]

InvalidResponse == [name |-> "SyntaxError", message |-> "JSON.parse: unexpected character"]

BatchCancelled == [name |-> "Error", message |-> "Translation cancelled"]

ProfileNotFound == [name |-> "Error", message |-> "Profile not found"]

NoActiveTab == [name |-> "Error", message |-> "No active tab"]

(***************************************************************************)
(* State.                                                                  *)
(***************************************************************************)
VARIABLES
  settings,        \* the stored Settings read by settingsService.getSettings()
  retryConfig,     \* TranslationService.retryConfig
  lastResult,      \* TranslationService.lastResult
  activeRequests,  \* keys of the activeRequests map (id -> AbortController)
  aborted,         \* signal.aborted of the AbortController created for RequestId
  cancelCalls,     \* number of CANCEL_TRANSLATION messages handled
  message,         \* payload of the TRANSLATE_TEXT / TRANSLATE_PAGE message
  contentResponse, \* the content script's answer to GET_PAGE_TEXT_NODES
  hpc,             \* position of handleTranslateText / handleTranslatePage
  response,        \* value the handler returned
  events,          \* chunk, result and progress messages broadcast or sent to the tab, in order
  historyCalls,    \* arguments of the historyService.addItem calls, in order
  result,          \* handleTranslateText: the local result / convertedText
  tmode,           \* which service call is running: translate or translateStreaming
  callText,        \* its text argument
  tpc,             \* position of translate / translateStreaming / executeWithRetry
  attempt,         \* loop variable of executeWithRetry
  lastError,       \* lastError of executeWithRetry
  fetchCount,      \* fetch() calls issued by the running service call
  tResult,         \* text produced by the service call when it returned
  tError,          \* error thrown by the service call
  accumulated,     \* translateStreaming: accumulated
  lastChunks,      \* translateStreaming: lastChunks
  stale,           \* translateStreaming: Date.now() - lastContentTime > contentTimeoutMs
  chunkCalls,      \* translateStreaming: the onChunk(chunk, accumulated) calls, in order
  arrived,         \* translateStreaming: non-empty contents received from the transport
  stopReason,      \* translateStreaming: why the read loop was left
  bpc,             \* position of translateBatch
  i,               \* translateBatch: loop variable (0-based)
  results,         \* translateBatch: results
  progressCalls,   \* translateBatch: the onProgress(completed, total, result) calls
  unitLog,         \* translateBatch: how each unit resolved and the fetch calls it took
  queried,         \* broadcastMessage: indices (in events) of the broadcasts whose tabs.query resolved
  tabInbox,        \* indices (in events) of the broadcasts a tab's content script received, in order
  hideBarSent,     \* handleCancelTranslation: HIDE_PROGRESS_BAR messages handed to sendToActiveTab
  spc,             \* sanitizeTranslationResult applied on its own: position
  sanitizeInput,   \* the text x handed to sanitizeTranslationResult
  once,            \* sanitizeTranslationResult(x)
  twice,           \* sanitizeTranslationResult(sanitizeTranslationResult(x))
  unwrapped,       \* removeWrappingQuotes(x)
  storedSettings,  \* browser.storage.local 'settings': the apiKey of each stored profile
  cachedSettings,  \* SettingsService.cachedSettings: the apiKey of each profile
  historyItems,    \* browser.storage.local 'translation_history': item ids, index 0 first
  maxItems,        \* HistoryService.maxItems
  nextItem,        \* id of the item the next addItem call is given
  addPc,           \* position of each addItem call in progress
  addNew,          \* addItem: the item argument of each call
  addItems,        \* addItem: the local items of each call
  sbStatus,        \* sidebar store: status
  currentRequestId, \* sidebar store: currentRequestId, "null" for null
  outputText,      \* sidebar store: outputText
  streamingText,   \* sidebar store: streamingText
  sbHistory,       \* sidebar store: history, the translated texts, index 0 first
  sbSeen,          \* broadcasts (a prefix of events) the sidebar's listener has handled
  registry,        \* several requests: the keys of activeRequests
  controllers,     \* several requests: the AbortController each handler created
  barElement,      \* content page: the element with id lta-progress-bar, 0 for none
  barElements,     \* content page: progress bar elements created so far
  barTimers,       \* content page: pending setTimeout callbacks of removeProgressBar
  shownFor         \* content page: number of SHOW_PROGRESS_BAR messages handled

configVars == <<settings, retryConfig>>

registryVars == <<activeRequests, aborted, cancelCalls>>

handlerVars == <<message, contentResponse, hpc, response, events, historyCalls, result>>

callVars == <<tmode, callText, tpc, attempt, lastError, fetchCount, tResult, tError>>

streamVars == <<accumulated, lastChunks, stale, chunkCalls, arrived, stopReason>>

batchVars == <<bpc, i, results, progressCalls, unitLog>>

deliveryVars == <<queried, tabInbox, hideBarSent>>

sanitizeVars == <<spc, sanitizeInput, once, twice, unwrapped>>

settingsVars == <<storedSettings, cachedSettings>>

historyVars == <<historyItems, maxItems, nextItem, addPc, addNew, addItems>>

sidebarVars == <<sbStatus, currentRequestId, outputText, streamingText, sbHistory, sbSeen>>

scopeVars == <<registry, controllers>>

barVars == <<barElement, barElements, barTimers, shownFor>>

uiVars == <<sidebarVars, scopeVars, barVars>>

storeVars == <<settingsVars, historyVars, uiVars>>

vars == <<configVars, lastResult, registryVars, handlerVars, callVars, streamVars, batchVars,
          deliveryVars, sanitizeVars, storeVars>>

NoMessage == [type |-> "none"]

NoResponse == [type |-> "none"]

\* the state of the service and the background script after start-up
InitService ==
  /\ settings \in [retryCount : 0..MaxRetries, historyEnabled : BOOLEAN,
                   streamingEnabled : BOOLEAN, profiles : ProfileCollections,
                   activeProfileId : ActiveProfileIds]
  /\ retryConfig = [maxRetries |-> settings.retryCount]
  /\ lastResult = ""
  /\ activeRequests = {}
  /\ aborted = FALSE
  /\ cancelCalls = 0
  /\ message = NoMessage
  /\ contentResponse = [texts |-> << >>, nodeIds |-> << >>]
  /\ hpc = "idle"
  /\ response = NoResponse
  /\ events = << >>
  /\ historyCalls = << >>
  /\ result = ""
  /\ tmode = "none"
  /\ callText = ""
  /\ tpc = "idle"
  /\ attempt = 0
  /\ lastError = NoError
  /\ fetchCount = 0
  /\ tResult = ""
  /\ tError = NoError
  /\ accumulated = ""
  /\ lastChunks = << >>
  /\ stale = FALSE
  /\ chunkCalls = << >>
  /\ arrived = << >>
  /\ stopReason = "none"
  /\ bpc = "idle"
  /\ i = 0
  /\ results = << >>
  /\ progressCalls = << >>
  /\ unitLog = << >>
  /\ queried = {}
  /\ tabInbox = << >>
  /\ hideBarSent = 0

DEFAULT_MAX_ITEMS == 100

\* ids of requests in flight together
RequestIds == {"r1", "r2", "r3"}

\* callers of historyService.addItem that can be in progress together
Callers == {1, 2}

\* browser storage holds nothing; new SettingsService(); new HistoryService()
InitStores ==
  /\ storedSettings = [present |-> FALSE, keys |-> << >>]
  /\ cachedSettings = [present |-> FALSE, keys |-> << >>]
  /\ historyItems = << >>
  /\ maxItems = DEFAULT_MAX_ITEMS
  /\ nextItem = 1
  /\ addPc = [c \in Callers |-> "idle"]
  /\ addNew = [c \in Callers |-> 0]
  /\ addItems = [c \in Callers |-> << >>]
  /\ sbStatus = "idle"
  /\ currentRequestId = "null"
  /\ outputText = ""
  /\ streamingText = ""
  /\ sbHistory = << >>
  /\ sbSeen = 0
  /\ registry = {}
  /\ controllers = [id \in RequestIds |-> [handler |-> "none", aborted |-> FALSE]]
  /\ barElement = 0
  /\ barElements = 0
  /\ barTimers = {}
  /\ shownFor = 0

Init ==
  /\ InitService
  /\ spc = "idle"
  /\ sanitizeInput = ""
  /\ once = ""
  /\ twice = ""
  /\ unwrapped = ""
  /\ InitStores

(***************************************************************************)
(* TranslationService.executeWithRetry around fetchWithTimeout.            *)
(***************************************************************************)
\* the loop head without its signal check
ExecuteWithRetryIter_NoSignalCheck(att, cnt, lerr, maxR) ==
  IF att > maxR
  THEN [tpc |-> "threw", fetchCount |-> cnt,
        tError |-> IF lerr = NoError THEN UnknownRetryError ELSE lerr]
  ELSE [tpc |-> "fetching", fetchCount |-> cnt + 1, tError |-> NoError]

\* One pass through the head of the for loop with loop variable att: the
\* loop condition, the signal check and the call of fn(), which issues fetch.
ExecuteWithRetryIter(att, cnt, lerr, maxR) ==
  IF att > maxR
  THEN [tpc |-> "threw", fetchCount |-> cnt,
        tError |-> IF lerr = NoError THEN UnknownRetryError ELSE lerr]
  ELSE IF aborted
  THEN [tpc |-> "threw", fetchCount |-> cnt, tError |-> CancelledError]
  ELSE [tpc |-> "fetching", fetchCount |-> cnt + 1, tError |-> NoError]

\* the catch block: what follows a rejection err of fn() in iteration att
AfterRejection(err, att, maxR) ==
  IF err.name = "AbortError" \/ aborted THEN "threw"
  ELSE IF att = maxR THEN "threw"
  ELSE "delay"

\* translate(...) / translateStreaming(...) is called: runs synchronously up
\* to the first fetch
StartCall(mode, text, maxR) ==
  LET r == ExecuteWithRetryIter(0, 0, NoError, maxR)
  IN /\ tmode' = mode
     /\ callText' = text
     /\ attempt' = 0
     /\ lastError' = NoError
     /\ tResult' = ""
     /\ tpc' = r.tpc
     /\ fetchCount' = r.fetchCount
     /\ tError' = r.tError

Math_max(a, b) == IF a >= b THEN a ELSE b

maxOutputLengthMultiplier == 10

minMaxOutputLength == 1000

maxConsecutiveRepeats == 5

minPatternLength == 10

\* const maxOutputLength of translateStreaming
MaxOutputLength(text) == Math_max(Len(text) * maxOutputLengthMultiplier, minMaxOutputLength)

\* the statements of translateStreaming between the response check and the
\* first reader.read()
StreamInit ==
  /\ accumulated' = ""
  /\ lastChunks' = << >>
  /\ stale' = FALSE
  /\ chunkCalls' = << >>
  /\ arrived' = << >>
  /\ stopReason' = "none"

\* fetch resolves with a Response (any status); executeWithRetry returns it
FetchResolves(ok) ==
  /\ tpc = "fetching"
  /\ ~aborted
  /\ IF ~ok THEN tpc' = "errText" /\ UNCHANGED streamVars
     ELSE IF tmode = "stream" THEN tpc' = "reading" /\ StreamInit
     ELSE tpc' = "json" /\ UNCHANGED streamVars
  /\ UNCHANGED <<tmode, callText, attempt, lastError, fetchCount, tResult, tError>>
  /\ UNCHANGED <<configVars, lastResult, registryVars, handlerVars, batchVars>>
  /\ UNCHANGED <<deliveryVars, sanitizeVars, storeVars>>

\* fetch rejects: a network failure, the timeout of fetchWithTimeout aborting
\* its controller, or the request's signal aborting it
FetchRejects(err) ==
  /\ tpc = "fetching"
  /\ IF aborted THEN err = AbortError ELSE err \in {NetworkError, AbortError}
  /\ lastError' = err
  /\ tpc' = AfterRejection(err, attempt, retryConfig.maxRetries)
  /\ tError' = IF tpc' = "threw" THEN err ELSE tError
  /\ UNCHANGED <<tmode, callText, attempt, fetchCount, tResult>>
  /\ UNCHANGED <<configVars, lastResult, registryVars, handlerVars, streamVars, batchVars>>
  /\ UNCHANGED <<deliveryVars, sanitizeVars, storeVars>>

\* the delay between attempts elapses, attempt++ and the loop head runs
DelayElapsed ==
  /\ tpc = "delay"
  /\ LET r == ExecuteWithRetryIter(attempt + 1, fetchCount, lastError, retryConfig.maxRetries)
     IN /\ attempt' = attempt + 1
        /\ tpc' = r.tpc
        /\ fetchCount' = r.fetchCount
        /\ tError' = r.tError
  /\ UNCHANGED <<tmode, callText, lastError, tResult>>
  /\ UNCHANGED <<configVars, lastResult, registryVars, handlerVars, streamVars, batchVars>>
  /\ UNCHANGED <<deliveryVars, sanitizeVars, storeVars>>

\* if (!response.ok): response.text() settles and the API error is thrown
ErrorBodyRead ==
  /\ tpc = "errText"
  /\ tpc' = "threw"
  /\ tError' = IF aborted THEN AbortError ELSE ApiError
  /\ UNCHANGED <<tmode, callText, attempt, lastError, fetchCount, tResult>>
  /\ UNCHANGED <<configVars, lastResult, registryVars, handlerVars, streamVars, batchVars>>
  /\ UNCHANGED <<deliveryVars, sanitizeVars, storeVars>>

\* translate: response.json() resolves, the content is sanitized and returned
JsonResolves(content) ==
  /\ tpc = "json"
  /\ ~aborted
  /\ tResult' = sanitizeTranslationResult(content)
  /\ lastResult' = tResult'
  /\ tpc' = "returned"
  /\ UNCHANGED <<tmode, callText, attempt, lastError, fetchCount, tError>>
  /\ UNCHANGED <<configVars, registryVars, handlerVars, streamVars, batchVars>>
  /\ UNCHANGED <<deliveryVars, sanitizeVars, storeVars>>

\* translate: response.json() rejects (malformed body, or the body read aborted)
JsonRejects ==
  /\ tpc = "json"
  /\ tpc' = "threw"
  /\ tError' = IF aborted THEN AbortError ELSE InvalidResponse
  /\ UNCHANGED <<tmode, callText, attempt, lastError, fetchCount, tResult>>
  /\ UNCHANGED <<configVars, lastResult, registryVars, handlerVars, streamVars, batchVars>>
  /\ UNCHANGED <<deliveryVars, sanitizeVars, storeVars>>

(***************************************************************************)
(* TranslationService.translateStreaming: the read loop.                   *)
(***************************************************************************)
\* contents of the delta frames a stream may carry: a short chunk and a long
\* chunk of 399 characters
ChunkContents == {"ab", Rep("abcdefg", 57)}

\* the lines of one network chunk after chunk.split('\n'): a data frame with
\* delta content, or a line the loop passes over (the [DONE] frame, no data:
\* prefix, unparsable JSON, empty content)
StreamLines ==
  {[kind |-> "content", content |-> c] : c \in ChunkContents}
    \cup {[kind |-> "other", content |-> ""]}

ReadValues == UNION {[1..n -> StreamLines] : n \in 1..MaxLinesPerRead}

\* recentChunks.slice(-n)
LastN(seq, n) == IF n >= Len(seq) THEN seq ELSE SubSeq(seq, Len(seq) - n + 1, Len(seq))

\* Method 1 asking for one more accepted chunk before it fires
RepeatedChunk_OneMore(newContent, recentChunks) ==
  /\ Len(recentChunks) >= maxConsecutiveRepeats + 1
  /\ LET lastN == LastN(recentChunks, maxConsecutiveRepeats + 1)
     IN (\A k \in 1..Len(lastN) : lastN[k] = newContent) /\ Len(newContent) > 0

\* Method 1 of detectRepetitionLoop
RepeatedChunk(newContent, recentChunks) ==
  /\ Len(recentChunks) >= maxConsecutiveRepeats
  /\ LET lastN == LastN(recentChunks, maxConsecutiveRepeats)
     IN (\A k \in 1..Len(lastN) : lastN[k] = newContent) /\ Len(newContent) > 0

\* Method 2 content with two equal windows
RepeatedPattern_TwoWindows(acc) ==
  /\ Len(acc) >= minPatternLength * 3
  /\ LET tail == SliceLast(acc, minPatternLength * 3)
     IN \E patternLen \in minPatternLength..(Len(tail) \div 3) :
          SliceLast(tail, patternLen) = SliceNeg(tail, patternLen * 2, patternLen)

\* Method 2 of detectRepetitionLoop
RepeatedPattern(acc) ==
  /\ Len(acc) >= minPatternLength * 3
  /\ LET tail == SliceLast(acc, minPatternLength * 3)
     IN \E patternLen \in minPatternLength..(Len(tail) \div 3) :
          LET pattern      == SliceLast(tail, patternLen)
              prevPattern1 == SliceNeg(tail, patternLen * 2, patternLen)
              prevPattern2 == SliceNeg(tail, patternLen * 3, patternLen * 2)
          IN pattern = prevPattern1 /\ pattern = prevPattern2

detectRepetitionLoop(newContent, recentChunks, acc) ==
  RepeatedChunk(newContent, recentChunks) \/ RepeatedPattern(acc)

\* lastChunks.push(content) and the cut to the last 2 * maxConsecutiveRepeats
PushChunk(chunks, content) == LastN(Append(chunks, content), maxConsecutiveRepeats * 2)

\* a budget one character too large
Remaining_OffByOne(acc, maxLen) == maxLen - Len(acc) + 1

\* the remaining budget of the length guard
Remaining(acc, maxLen) == maxLen - Len(acc)

\* the body of "if (content)" for one delta content; st holds the loop's
\* variables and st.stop the StreamingLoopError thrown, if any
ProcessContent(st, content, maxLen) ==
  Let([st EXCEPT !.stale = FALSE, !.arrived = Append(@, content)], LAMBDA st1 :
     IF Len(st1.accumulated) + Len(content) > maxLen
     THEN LET remaining == Remaining(st1.accumulated, maxLen)
              acc       == st1.accumulated \o SliceTo(content, remaining)
          IN IF remaining > 0
             THEN [st1 EXCEPT !.accumulated = acc,
                              !.chunkCalls = Append(@, [chunk |-> SliceTo(content, remaining),
                                                        accumulated |-> acc]),
                              !.stop = "max-length"]
             ELSE [st1 EXCEPT !.stop = "max-length"]
     ELSE IF detectRepetitionLoop(content, st1.lastChunks, st1.accumulated)
     THEN [st1 EXCEPT !.stop = "repetition"]
     ELSE [st1 EXCEPT !.lastChunks = PushChunk(@, content),
                      !.accumulated = @ \o content,
                      !.chunkCalls = Append(@, [chunk |-> content,
                                                accumulated |-> st1.accumulated \o content])])

\* the "for (const line of lines)" loop; it ends when a StreamingLoopError is thrown
RECURSIVE ProcessLines(_, _, _)
ProcessLines(st, lines, maxLen) ==
  IF lines = << >> \/ st.stop # "none" THEN st
  ELSE LET line == Head(lines)
       IN IF line.kind = "content"
          THEN Let(ProcessContent(st, line.content, maxLen),
                   LAMBDA st2 : ProcessLines(st2, Tail(lines), maxLen))
          ELSE ProcessLines(st, Tail(lines), maxLen)

NumContents(lines) == Cardinality({k \in 1..Len(lines) : lines[k].kind = "content"})

\* the accumulated text stored as it is
StreamFinish_Unsanitized(acc, reason) ==
  /\ stopReason' = reason
  /\ lastResult' = acc
  /\ tResult' = lastResult'
  /\ tpc' = "returned"

\* the statements after the read loop: the final sanitized result is stored
StreamFinish(acc, reason) ==
  /\ stopReason' = reason
  /\ lastResult' = sanitizeAccumulatedResult(acc)
  /\ tResult' = lastResult'
  /\ tpc' = "returned"

\* payload of the message the onChunk callback of handleTranslateText
\* broadcasts (its accumulated field, the sanitized running text, is not kept)
ChunkEvent(call) ==
  [type |-> "TRANSLATE_TEXT_STREAM_CHUNK", requestId |-> message.requestId, text |-> call.chunk]

RECURSIVE ChunkEvents(_)
ChunkEvents(calls) ==
  IF calls = << >> THEN << >> ELSE <<ChunkEvent(Head(calls))>> \o ChunkEvents(Tail(calls))

\* reader.read() resolves with a network chunk; its lines are processed, then
\* the loop head checks the content timeout
ReadChunk(lines) ==
  /\ tpc = "reading"
  /\ ~aborted
  /\ Len(arrived) + NumContents(lines) <= MaxChunks
  /\ \E st \in {ProcessLines([accumulated |-> accumulated, lastChunks |-> lastChunks,
                                chunkCalls |-> chunkCalls, arrived |-> arrived,
                                stale |-> stale, stop |-> "none"],
                               lines, MaxOutputLength(callText))} :
        /\ accumulated' = st.accumulated
        /\ lastChunks' = st.lastChunks
        /\ chunkCalls' = st.chunkCalls
        /\ arrived' = st.arrived
        /\ stale' = st.stale
        /\ events' = events \o ChunkEvents(SubSeq(st.chunkCalls, Len(chunkCalls) + 1, Len(st.chunkCalls)))
        /\ IF st.stop # "none" THEN StreamFinish(st.accumulated, st.stop)
           ELSE IF st.stale THEN StreamFinish(st.accumulated, "timeout")
           ELSE /\ UNCHANGED <<stopReason, lastResult, tResult, tpc>>
  /\ UNCHANGED <<tmode, callText, attempt, lastError, fetchCount, tError>>
  /\ UNCHANGED <<message, contentResponse, hpc, response, historyCalls, result>>
  /\ UNCHANGED <<configVars, registryVars, batchVars>>
  /\ UNCHANGED <<deliveryVars, sanitizeVars, storeVars>>

\* reader.read() resolves with done
ReadDone ==
  /\ tpc = "reading"
  /\ ~aborted
  /\ StreamFinish(accumulated, "done")
  /\ UNCHANGED <<accumulated, lastChunks, stale, chunkCalls, arrived>>
  /\ UNCHANGED <<tmode, callText, attempt, lastError, fetchCount, tError>>
  /\ UNCHANGED <<configVars, registryVars, handlerVars, batchVars>>
  /\ UNCHANGED <<deliveryVars, sanitizeVars, storeVars>>

\* a failed read is answered with another request while retries are left
ReadRejects_Retries ==
  /\ tpc = "reading"
  /\ IF ~aborted /\ attempt < retryConfig.maxRetries
     THEN /\ tpc' = "fetching"
          /\ attempt' = attempt + 1
          /\ fetchCount' = fetchCount + 1
          /\ UNCHANGED tError
     ELSE /\ tpc' = "threw"
          /\ tError' = IF aborted THEN AbortError ELSE NetworkError
          /\ UNCHANGED <<attempt, fetchCount>>
  /\ UNCHANGED <<tmode, callText, lastError, tResult>>
  /\ UNCHANGED <<configVars, lastResult, registryVars, handlerVars, streamVars, batchVars>>
  /\ UNCHANGED <<deliveryVars, sanitizeVars, storeVars>>

\* reader.read() rejects: the connection failed or the signal aborted the body
ReadRejects ==
  /\ tpc = "reading"
  /\ tpc' = "threw"
  /\ tError' = IF aborted THEN AbortError ELSE NetworkError
  /\ UNCHANGED <<tmode, callText, attempt, lastError, fetchCount, tResult>>
  /\ UNCHANGED <<configVars, lastResult, registryVars, handlerVars, streamVars, batchVars>>
  /\ UNCHANGED <<deliveryVars, sanitizeVars, storeVars>>

\* more than contentTimeoutMs pass without content while a read is pending
ContentTimeoutPasses ==
  /\ tpc = "reading"
  /\ ~stale
  /\ stale' = TRUE
  /\ UNCHANGED <<accumulated, lastChunks, chunkCalls, arrived, stopReason>>
  /\ UNCHANGED <<configVars, lastResult, registryVars, handlerVars, callVars, batchVars>>
  /\ UNCHANGED <<deliveryVars, sanitizeVars, storeVars>>

(***************************************************************************)
(* background/index.ts: handleTranslateText, handleCancelTranslation.      *)
(***************************************************************************)
\* utils/currency.ts applyConversions: every pattern it rewrites needs a
\* digit, and the texts of this model hold none, so the text is returned as is
applyConversions(text) == text

NoProfile == "none"

\* profile.apiEndpoint: p1 keeps the endpoint of DEFAULT_PROFILE, p2 holds one
\* entered on the options page, which stores the field as typed
apiEndpoint(profileId) ==
  IF profileId = "p1" THEN "http://localhost:3002/v1/chat/completions"
  ELSE "http://example.com/v1/chat/completions"

\* position of the first occurrence of lit in s at or after from, 0 if none
RECURSIVE IndexOf(_, _, _)
IndexOf(s, lit, from) ==
  IF from + Len(lit) - 1 > Len(s) THEN 0
  ELSE IF SubSeq(s, from, from + Len(lit) - 1) = lit THEN from
  ELSE IndexOf(s, lit, from + 1)

\* new URL(url).protocol: the scheme with its colon, "" when url has none
UrlProtocol(url) ==
  LET k == IndexOf(url, ":", 1)
  IN IF k = 0 THEN "" ELSE LowerStr(SubSeq(url, 1, k))

\* new URL(url).hostname: what follows "//" up to the port, path or end
UrlHostname(url) ==
  LET k == IndexOf(url, "://", 1)
      from == k + 3
      ends == {e \in from..Len(url) : CharAt(url, e) \in {":", "/", "?", "#"}}
      to == IF ends = {} THEN Len(url) ELSE MinOf(ends) - 1
  IN IF k = 0 \/ to < from THEN "" ELSE LowerStr(SubSeq(url, from, to))

\* utils: validateApiEndpoint(url).valid
validateApiEndpoint(url) ==
  IF UrlProtocol(url) = "" THEN FALSE
  ELSE IF UrlHostname(url) \in {"localhost", "127.0.0.1"} THEN TRUE
  ELSE UrlProtocol(url) = "https:"

\* profileId || settings.activeProfileId
EffectiveProfileId(profileId) == IF profileId # "" THEN profileId ELSE settings.activeProfileId

\* the fallback to the first profile is left out
ResolveProfile_NoFallback(profiles, profileId) ==
  IF \E k \in 1..Len(profiles) : profiles[k] = profileId THEN profileId
  ELSE NoProfile

\* settings.profiles.find(p => p.id === effectiveProfileId) ?? settings.profiles[0]
ResolveProfile(profiles, profileId) ==
  IF \E k \in 1..Len(profiles) : profiles[k] = profileId THEN profileId
  ELSE IF Len(profiles) > 0 THEN profiles[1]
  ELSE NoProfile

\* the catch block of handleTranslateText
TextErrorResponse(err) ==
  [type |-> "TRANSLATE_TEXT_ERROR", requestId |-> message.requestId,
   code |-> IF err.name = "AbortError" THEN "CANCELLED" ELSE "API_ERROR",
   message |-> IF err.name = "AbortError" THEN "Translation was cancelled" ELSE err.message]

HistoryItem(text) ==
  [id |-> message.requestId, sourceText |-> message.text, translatedText |-> text,
   profileId |-> ResolveProfile(settings.profiles, EffectiveProfileId(message.profileId))]

\* the final message of a text request; the non-streaming one spreads the
\* TranslationResult of translate(), whose requestId is ''
FinalEvent(mode, text) ==
  IF mode = "stream"
  THEN [type |-> "TRANSLATE_TEXT_STREAM_END", requestId |-> message.requestId, text |-> text]
  ELSE [type |-> "TRANSLATE_TEXT_RESULT", requestId |-> "", text |-> text]

\* no continuation ever keeps another task from running
ContinuationPending_Never == FALSE

\* a synchronous continuation is due: the service call settled and its caller
\* has not run yet; no other task runs in between
ContinuationPending ==
  \/ hpc = "awaitCall" /\ tpc \in {"returned", "threw"}
  \/ hpc = "awaitBatch" /\ (bpc \in {"returned", "threw"} \/ tpc \in {"returned", "threw"})

\* a TRANSLATE_TEXT message arrives: the controller is created and registered
ReceiveTranslateText(text, stream, profileId) ==
  /\ hpc = "idle"
  /\ message' = [type |-> "TRANSLATE_TEXT", requestId |-> RequestId, text |-> text,
                 stream |-> stream, profileId |-> profileId]
  /\ activeRequests' = activeRequests \cup {RequestId}
  /\ aborted' = FALSE
  /\ hpc' = "getSettings"
  /\ UNCHANGED <<contentResponse, response, events, historyCalls, result, cancelCalls>>
  /\ UNCHANGED <<configVars, lastResult, callVars, streamVars, batchVars>>
  /\ UNCHANGED <<deliveryVars, sanitizeVars, storeVars>>

\* getSettings() resolves: the profile is resolved, the retry config updated
\* and translate / translateStreaming called
TextSettingsLoaded ==
  /\ hpc = "getSettings"
  /\ message.type = "TRANSLATE_TEXT"
  /\ IF ResolveProfile(settings.profiles, EffectiveProfileId(message.profileId)) = NoProfile
     THEN /\ response' = TextErrorResponse(ProfileNotFound)
          /\ activeRequests' = activeRequests \ {message.requestId}
          /\ hpc' = "done"
          /\ UNCHANGED <<retryConfig, callVars>>
     ELSE /\ retryConfig' = [retryConfig EXCEPT !.maxRetries = settings.retryCount]
          /\ StartCall(IF message.stream /\ settings.streamingEnabled THEN "stream" ELSE "translate",
                       message.text, settings.retryCount)
          /\ hpc' = "awaitCall"
          /\ UNCHANGED <<response, activeRequests>>
  /\ UNCHANGED <<settings, lastResult, aborted, cancelCalls, message, contentResponse,
                 events, historyCalls, result>>
  /\ UNCHANGED <<streamVars, batchVars>>
  /\ UNCHANGED <<deliveryVars, sanitizeVars, storeVars>>

\* the statements after the history step: the final message is broadcast and
\* returned, then the finally block removes the registry entry
TextFinish(text) ==
  /\ events' = Append(events, FinalEvent(tmode, text))
  /\ response' = FinalEvent(tmode, text)
  /\ activeRequests' = activeRequests \ {message.requestId}
  /\ hpc' = "done"

\* translateStreaming returned: the final result is read from the service
TextStreamingReturned ==
  /\ hpc = "awaitCall"
  /\ tmode = "stream"
  /\ tpc = "returned"
  /\ \E res \in {IF lastResult # "" THEN sanitizeAccumulatedResult(applyConversions(lastResult))
                   ELSE ""} :
        /\ result' = res
        /\ IF res # ""
           THEN IF settings.historyEnabled
                THEN /\ historyCalls' = Append(historyCalls, HistoryItem(res))
                     /\ hpc' = "awaitHistory"
                     /\ UNCHANGED <<events, response, activeRequests>>
                ELSE /\ TextFinish(res)
                     /\ UNCHANGED historyCalls
           ELSE /\ response' = [type |-> "success"]
                /\ activeRequests' = activeRequests \ {message.requestId}
                /\ hpc' = "done"
                /\ UNCHANGED <<events, historyCalls>>
  /\ UNCHANGED <<aborted, cancelCalls, message, contentResponse>>
  /\ UNCHANGED <<configVars, lastResult, callVars, streamVars, batchVars>>
  /\ UNCHANGED <<deliveryVars, sanitizeVars, storeVars>>

\* translate returned its TranslationResult
TextTranslateReturned ==
  /\ hpc = "awaitCall"
  /\ tmode = "translate"
  /\ tpc = "returned"
  /\ \E convertedText \in {sanitizeAccumulatedResult(applyConversions(tResult))} :
        /\ result' = convertedText
        /\ IF settings.historyEnabled
           THEN /\ historyCalls' = Append(historyCalls, HistoryItem(convertedText))
                /\ hpc' = "awaitHistory"
                /\ UNCHANGED <<events, response, activeRequests>>
           ELSE /\ TextFinish(convertedText)
                /\ UNCHANGED historyCalls
  /\ UNCHANGED <<aborted, cancelCalls, message, contentResponse>>
  /\ UNCHANGED <<configVars, lastResult, callVars, streamVars, batchVars>>
  /\ UNCHANGED <<deliveryVars, sanitizeVars, storeVars>>

\* historyService.addItem resolved
TextHistorySaved ==
  /\ hpc = "awaitHistory"
  /\ TextFinish(result)
  /\ UNCHANGED <<aborted, cancelCalls, message, contentResponse, historyCalls, result>>
  /\ UNCHANGED <<configVars, lastResult, callVars, streamVars, batchVars>>
  /\ UNCHANGED <<deliveryVars, sanitizeVars, storeVars>>

\* translate / translateStreaming threw: the catch and finally blocks
TextCallThrew ==
  /\ hpc = "awaitCall"
  /\ tpc = "threw"
  /\ response' = TextErrorResponse(tError)
  /\ activeRequests' = activeRequests \ {message.requestId}
  /\ hpc' = "done"
  /\ UNCHANGED <<aborted, cancelCalls, message, contentResponse, events, historyCalls, result>>
  /\ UNCHANGED <<configVars, lastResult, callVars, streamVars, batchVars>>
  /\ UNCHANGED <<deliveryVars, sanitizeVars, storeVars>>

\* every id is taken to have a controller
HasController_Always(requestId) == TRUE

\* const controller = activeRequests.get(requestId); if (controller)
HasController(requestId) == requestId \in activeRequests

\* the controller is aborted but its entry stays in the registry
handleCancelTranslation_KeepsEntry(requestId) ==
  /\ cancelCalls < MaxCancels
  /\ ~ContinuationPending
  /\ cancelCalls' = cancelCalls + 1
  /\ IF HasController(requestId)
     THEN /\ aborted' = TRUE
          /\ UNCHANGED activeRequests
          /\ hideBarSent' = hideBarSent + 1
     ELSE UNCHANGED <<aborted, activeRequests, hideBarSent>>
  /\ UNCHANGED <<configVars, lastResult, handlerVars, callVars, streamVars, batchVars>>
  /\ UNCHANGED <<queried, tabInbox>>
  /\ UNCHANGED <<sanitizeVars, storeVars>>

\* a CANCEL_TRANSLATION message for requestId is handled
handleCancelTranslation(requestId) ==
  /\ cancelCalls < MaxCancels
  /\ ~ContinuationPending
  /\ cancelCalls' = cancelCalls + 1
  /\ IF HasController(requestId)
     THEN /\ aborted' = TRUE
          /\ activeRequests' = activeRequests \ {requestId}
          /\ hideBarSent' = hideBarSent + 1
     ELSE UNCHANGED <<aborted, activeRequests, hideBarSent>>
  /\ UNCHANGED <<configVars, lastResult, handlerVars, callVars, streamVars, batchVars>>
  /\ UNCHANGED <<queried, tabInbox>>
  /\ UNCHANGED <<sanitizeVars, storeVars>>

\* texts another request's call may leave in the service
OtherResults == {"other"}

\* The translate or translateStreaming call of another request in flight on
\* the same TranslationService ends: its last statement stores its result in
\* this.lastResult. It runs as a task of its own, so not between the end of
\* this request's call and the continuation of its handler.
OtherCallStores(text) ==
  /\ ~ContinuationPending
  /\ hpc \notin {"idle", "done"}
  /\ lastResult' = text
  /\ UNCHANGED <<configVars, registryVars, handlerVars, callVars, streamVars, batchVars>>
  /\ UNCHANGED <<deliveryVars, sanitizeVars, storeVars>>

(***************************************************************************)
(* background/index.ts: broadcastMessage.                                  *)
(***************************************************************************)
\* the messages handleTranslateText hands to broadcastMessage
BroadcastTypes ==
  {"TRANSLATE_TEXT_STREAM_CHUNK", "TRANSLATE_TEXT_STREAM_END", "TRANSLATE_TEXT_RESULT"}

\* broadcastMessage(events[k]) is called without being awaited: it calls
\* runtime.sendMessage at once and then awaits its own tabs.query({}). Here
\* that query resolves and the message is sent to the tab, whose content
\* script receives the messages of one sender in the order they were sent.
\* Nothing orders the queries of different broadcasts among each other.
TabsQueried(k) ==
  /\ k \in 1..Len(events)
  /\ k \notin queried
  /\ events[k].type \in BroadcastTypes
  /\ queried' = queried \cup {k}
  /\ tabInbox' = Append(tabInbox, k)
  /\ UNCHANGED <<hideBarSent, sanitizeVars, storeVars>>
  /\ UNCHANGED <<configVars, lastResult, registryVars, handlerVars, callVars, streamVars, batchVars>>

(***************************************************************************)
(* TranslationService.translateBatch and handleTranslatePage.              *)
(***************************************************************************)
\* only the empty string counts as blank
IsBlank_EmptyOnly(text) == text = ""

\* !text || text.trim().length === 0
IsBlank(text) == text = "" \/ Len(Trim(text)) = 0

\* a failed unit yields the empty string
Fallback_Empty(text) == ""

\* result pushed for a unit whose translate call threw
Fallback(text) == text

\* progress reported with the 0-based index
ProgressCall_ZeroBased(idx, total, res) == [completed |-> idx, total |-> total, result |-> res]

\* onProgress(completed, total, result) for the unit with 0-based index idx
ProgressCall(idx, total, res) == [completed |-> idx + 1, total |-> total, result |-> res]

\* The for loop of translateBatch from index idx up to its next suspension:
\* the signal check and the blank units run synchronously; the loop stops at
\* the first unit that needs translate ("call"), at the end of the list
\* ("returned") or at an aborted signal ("threw").
RECURSIVE BatchLoop(_, _, _, _, _)
BatchLoop(texts, idx, res, prog, log) ==
  IF idx >= Len(texts)
  THEN [status |-> "returned", i |-> idx, results |-> res, progressCalls |-> prog, unitLog |-> log]
  ELSE IF aborted
  THEN [status |-> "threw", i |-> idx, results |-> res, progressCalls |-> prog, unitLog |-> log]
  ELSE IF IsBlank(texts[idx + 1])
  THEN BatchLoop(texts, idx + 1, Append(res, ""),
                 Append(prog, ProgressCall(idx, Len(texts), "")),
                 Append(log, [kind |-> "blank", text |-> "", fetches |-> 0]))
  ELSE [status |-> "call", i |-> idx, results |-> res, progressCalls |-> prog, unitLog |-> log]

\* ids the content script gives the text nodes, in document order
NodeIds == <<"lta-node-0", "lta-node-1", "lta-node-2", "lta-node-3">>

\* the single-node message names the node after the one that resolved
ProgressEvents_NextNode(call, nodeIds) ==
  LET nodeId == IF call.completed + 1 \in 1..Len(nodeIds) THEN nodeIds[call.completed + 1] ELSE ""
  IN (IF nodeId # "" /\ call.result # ""
      THEN <<[type |-> "APPLY_SINGLE_NODE_TRANSLATION", nodeId |-> nodeId,
              text |-> sanitizeAccumulatedResult(applyConversions(call.result)),
              translatedNodes |-> call.completed, totalNodes |-> call.total]>>
      ELSE << >>)
     \o <<[type |-> "TRANSLATE_PAGE_PROGRESS", translatedNodes |-> call.completed,
           totalNodes |-> call.total]>>

\* the messages the onProgress callback of handleTranslatePage sends
ProgressEvents(call, nodeIds) ==
  LET nodeId == IF call.completed \in 1..Len(nodeIds) THEN nodeIds[call.completed] ELSE ""
  IN (IF nodeId # "" /\ call.result # ""
      THEN <<[type |-> "APPLY_SINGLE_NODE_TRANSLATION", nodeId |-> nodeId,
              text |-> sanitizeAccumulatedResult(applyConversions(call.result)),
              translatedNodes |-> call.completed, totalNodes |-> call.total]>>
      ELSE << >>)
     \o <<[type |-> "TRANSLATE_PAGE_PROGRESS", translatedNodes |-> call.completed,
           totalNodes |-> call.total]>>

RECURSIVE AllProgressEvents(_, _)
AllProgressEvents(calls, nodeIds) ==
  IF calls = << >> THEN << >>
  ELSE ProgressEvents(Head(calls), nodeIds) \o AllProgressEvents(Tail(calls), nodeIds)

\* the loop moves on to the unit after the one whose call it starts
BatchAdvance_MovesOn(cr, idx, res, prog, log) ==
  \E b \in {BatchLoop(cr.texts, idx, res, prog, log)} :
     /\ i' = IF b.status = "call" /\ b.i + 1 < Len(cr.texts) THEN b.i + 1 ELSE b.i
     /\ results' = b.results
     /\ progressCalls' = b.progressCalls
     /\ unitLog' = b.unitLog
     /\ events' = events \o AllProgressEvents(
                     SubSeq(b.progressCalls, Len(progressCalls) + 1, Len(b.progressCalls)), cr.nodeIds)
     /\ IF b.status = "call"
        THEN /\ bpc' = "awaitTranslate"
             /\ StartCall("translate", cr.texts[b.i + 1], retryConfig.maxRetries)
        ELSE /\ bpc' = b.status
             /\ UNCHANGED <<tmode, callText, attempt, lastError, fetchCount, tResult>>
             /\ tpc' = "idle"
             /\ tError' = IF b.status = "threw" THEN BatchCancelled ELSE NoError

\* translateBatch runs from index idx with the given results so far, up to
\* its next suspension; the progress callbacks run inside it
BatchAdvance(cr, idx, res, prog, log) ==
  \E b \in {BatchLoop(cr.texts, idx, res, prog, log)} :
     /\ i' = b.i
     /\ results' = b.results
     /\ progressCalls' = b.progressCalls
     /\ unitLog' = b.unitLog
     /\ events' = events \o AllProgressEvents(
                     SubSeq(b.progressCalls, Len(progressCalls) + 1, Len(b.progressCalls)), cr.nodeIds)
     /\ IF b.status = "call"
        THEN /\ bpc' = "awaitTranslate"
             /\ StartCall("translate", cr.texts[b.i + 1], retryConfig.maxRetries)
        ELSE /\ bpc' = b.status
             /\ UNCHANGED <<tmode, callText, attempt, lastError, fetchCount, tResult>>
             /\ tpc' = "idle"
             /\ tError' = IF b.status = "threw" THEN BatchCancelled ELSE NoError

\* the translate call of unit i settled: its result or the original text is
\* pushed, progress is reported and the loop goes on
BatchUnitSettled ==
  /\ hpc = "awaitBatch"
  /\ bpc = "awaitTranslate"
  /\ tpc \in {"returned", "threw"}
  /\ LET text == contentResponse.texts[i + 1]
         res  == IF tpc = "returned" THEN tResult ELSE Fallback(text)
     IN BatchAdvance(contentResponse, i + 1, Append(results, res),
                     Append(progressCalls, ProgressCall(i, Len(contentResponse.texts), res)),
                     Append(unitLog, [kind |-> tpc, text |-> tResult, fetches |-> fetchCount]))
  /\ UNCHANGED <<message, contentResponse, hpc, response, historyCalls, result>>
  /\ UNCHANGED <<configVars, lastResult, registryVars, streamVars>>
  /\ UNCHANGED <<deliveryVars, sanitizeVars, storeVars>>

\* the catch block of handleTranslatePage
PageErrorResponse(err) ==
  [type |-> "TRANSLATE_PAGE_ERROR", requestId |-> message.requestId,
   code |-> "API_ERROR", message |-> err.message]

PageComplete(n) ==
  [type |-> "TRANSLATE_PAGE_COMPLETE", requestId |-> message.requestId, translatedNodes |-> n]

\* a TRANSLATE_PAGE message arrives
ReceiveTranslatePage(profileId) ==
  /\ hpc = "idle"
  /\ message' = [type |-> "TRANSLATE_PAGE", requestId |-> RequestId, text |-> "",
                 stream |-> FALSE, profileId |-> profileId]
  /\ activeRequests' = activeRequests \cup {RequestId}
  /\ aborted' = FALSE
  /\ hpc' = "getSettings"
  /\ UNCHANGED <<contentResponse, response, events, historyCalls, result, cancelCalls>>
  /\ UNCHANGED <<configVars, lastResult, callVars, streamVars, batchVars>>
  /\ UNCHANGED <<deliveryVars, sanitizeVars, storeVars>>

\* getSettings() resolves in handleTranslatePage
PageSettingsLoaded ==
  /\ hpc = "getSettings"
  /\ message.type = "TRANSLATE_PAGE"
  /\ IF ResolveProfile(settings.profiles, EffectiveProfileId(message.profileId)) = NoProfile
     THEN /\ response' = PageErrorResponse(ProfileNotFound)
          /\ activeRequests' = activeRequests \ {message.requestId}
          /\ hpc' = "done"
     ELSE /\ hpc' = "queryTab"
          /\ UNCHANGED <<response, activeRequests>>
  /\ UNCHANGED <<aborted, cancelCalls, message, contentResponse, events, historyCalls, result>>
  /\ UNCHANGED <<configVars, lastResult, callVars, streamVars, batchVars>>
  /\ UNCHANGED <<deliveryVars, sanitizeVars, storeVars>>

\* tabs.query resolves; with a tab, GET_PAGE_TEXT_NODES is sent to it
PageTabQueried(hasTab) ==
  /\ hpc = "queryTab"
  /\ IF hasTab
     THEN /\ hpc' = "getNodes"
          /\ UNCHANGED <<response, activeRequests>>
     ELSE /\ response' = PageErrorResponse(NoActiveTab)
          /\ activeRequests' = activeRequests \ {message.requestId}
          /\ hpc' = "done"
  /\ UNCHANGED <<aborted, cancelCalls, message, contentResponse, events, historyCalls, result>>
  /\ UNCHANGED <<configVars, lastResult, callVars, streamVars, batchVars>>
  /\ UNCHANGED <<deliveryVars, sanitizeVars, storeVars>>

\* the content script answers with the page's text units; translateBatch is
\* called unless there are none
PageNodesReceived(texts) ==
  /\ hpc = "getNodes"
  /\ LET cr == [texts |-> texts, nodeIds |-> SubSeq(NodeIds, 1, Len(texts))]
     IN /\ contentResponse' = cr
        /\ IF Len(texts) = 0
           THEN /\ response' = PageComplete(0)
                /\ activeRequests' = activeRequests \ {message.requestId}
                /\ hpc' = "done"
                /\ UNCHANGED <<events, callVars, batchVars>>
           ELSE /\ hpc' = "awaitBatch"
                /\ BatchAdvance(cr, 0, << >>, << >>, << >>)
                /\ UNCHANGED <<response, activeRequests>>
  /\ UNCHANGED <<aborted, cancelCalls, message, historyCalls, result>>
  /\ UNCHANGED <<configVars, lastResult, streamVars>>
  /\ UNCHANGED <<deliveryVars, sanitizeVars, storeVars>>

RECURSIVE ProcessTexts(_)
ProcessTexts(texts) ==
  IF texts = << >> THEN << >>
  ELSE <<sanitizeAccumulatedResult(applyConversions(Head(texts)))>> \o ProcessTexts(Tail(texts))

\* translateBatch returned its list: the final aggregate is sent to the tab
PageBatchReturned ==
  /\ hpc = "awaitBatch"
  /\ bpc = "returned"
  /\ events' = Append(events, [type |-> "APPLY_PAGE_TRANSLATION",
                               nodeIds |-> contentResponse.nodeIds,
                               translatedTexts |-> ProcessTexts(results)])
  /\ hpc' = "awaitApply"
  /\ UNCHANGED <<message, contentResponse, response, historyCalls, result>>
  /\ UNCHANGED <<configVars, lastResult, registryVars, callVars, streamVars, batchVars>>
  /\ UNCHANGED <<deliveryVars, sanitizeVars, storeVars>>

\* the tab acknowledged APPLY_PAGE_TRANSLATION
PageApplySent ==
  /\ hpc = "awaitApply"
  /\ response' = PageComplete(Len(contentResponse.texts))
  /\ activeRequests' = activeRequests \ {message.requestId}
  /\ hpc' = "done"
  /\ UNCHANGED <<aborted, cancelCalls, message, contentResponse, events, historyCalls, result>>
  /\ UNCHANGED <<configVars, lastResult, callVars, streamVars, batchVars>>
  /\ UNCHANGED <<deliveryVars, sanitizeVars, storeVars>>

\* tabs.sendMessage rejects when the tab has no listener for the message (the
\* tab was closed or navigated away, or its content script is gone)
NoReceiver ==
  [name |-> "Error", message |-> "Could not establish connection. Receiving end does not exist."]

\* the awaited tabs.sendMessage of APPLY_PAGE_TRANSLATION rejects: the catch
\* and finally blocks
PageApplyRejected ==
  /\ hpc = "awaitApply"
  /\ response' = PageErrorResponse(NoReceiver)
  /\ activeRequests' = activeRequests \ {message.requestId}
  /\ hpc' = "done"
  /\ UNCHANGED <<aborted, cancelCalls, message, contentResponse, events, historyCalls, result>>
  /\ UNCHANGED <<configVars, lastResult, callVars, streamVars, batchVars>>
  /\ UNCHANGED <<deliveryVars, sanitizeVars, storeVars>>

\* translateBatch threw: the catch and finally blocks
PageBatchThrew ==
  /\ hpc = "awaitBatch"
  /\ bpc = "threw"
  /\ response' = PageErrorResponse(tError)
  /\ activeRequests' = activeRequests \ {message.requestId}
  /\ hpc' = "done"
  /\ UNCHANGED <<aborted, cancelCalls, message, contentResponse, events, historyCalls, result>>
  /\ UNCHANGED <<configVars, lastResult, callVars, streamVars, batchVars>>
  /\ UNCHANGED <<deliveryVars, sanitizeVars, storeVars>>

(***************************************************************************)
(* Specification.                                                          *)
(***************************************************************************)
UnitLists == UNION {[1..n -> UnitTexts] : n \in 0..MaxUnits}

\* the steps of translate / translateStreaming up to the response
TransportSteps ==
  \/ \E ok \in BOOLEAN : FetchResolves(ok)
  \/ \E err \in {NetworkError, AbortError} : FetchRejects(err)
  \/ DelayElapsed
  \/ ErrorBodyRead

\* the steps of translate after the response
JsonSteps ==
  \/ \E content \in ReplyContents : JsonResolves(content)
  \/ JsonRejects

\* a non-streaming text request
NextText ==
  \/ \E text \in SourceTexts, stream \in BOOLEAN, profileId \in RequestedProfileIds :
       ReceiveTranslateText(text, stream, profileId)
  \/ TextSettingsLoaded
  \/ TransportSteps
  \/ JsonSteps
  \/ TextTranslateReturned
  \/ TextHistorySaved
  \/ TextCallThrew
  \/ handleCancelTranslation(RequestId)

\* a streaming text request, for a profile of the stored collection
NextStream ==
  \/ \E text \in SourceTexts : ReceiveTranslateText(text, TRUE, "p2")
  \/ TextSettingsLoaded
  \/ TransportSteps
  \/ \E lines \in ReadValues : ReadChunk(lines)
  \/ ReadDone
  \/ ReadRejects
  \/ ContentTimeoutPasses
  \/ TextStreamingReturned
  \/ TextHistorySaved
  \/ TextCallThrew
  \/ handleCancelTranslation(RequestId)

\* the steps of a page request after its message arrived, but for the answer
\* of the content script
PageSteps ==
  \/ PageSettingsLoaded
  \/ \E hasTab \in BOOLEAN : PageTabQueried(hasTab)
  \/ TransportSteps
  \/ JsonSteps
  \/ BatchUnitSettled
  \/ PageBatchReturned
  \/ PageApplySent
  \/ PageApplyRejected
  \/ PageBatchThrew
  \/ handleCancelTranslation(RequestId)

\* a page request, for a profile id that is not in the stored collection
NextPage ==
  \/ ReceiveTranslatePage("px")
  \/ \E texts \in UnitLists : PageNodesReceived(texts)
  \/ PageSteps

\* pages of at most one unit
OneUnitLists == {<< >>, <<" ">>, <<"ab">>}

\* a text request or a page request of at most one unit, for every profile id
NextRequests ==
  \/ NextText
  \/ \E profileId \in RequestedProfileIds : ReceiveTranslatePage(profileId)
  \/ \E texts \in OneUnitLists : PageNodesReceived(texts)
  \/ PageSteps

\* contents of short delta frames: a blank one and a plain one
ShortChunkContents == {" ", "ab"}

ShortStreamLines ==
  {[kind |-> "content", content |-> c] : c \in ShortChunkContents}
    \cup {[kind |-> "other", content |-> ""]}

ShortReadValues == UNION {[1..n -> ShortStreamLines] : n \in 1..MaxLinesPerRead}

\* a streaming text request whose stream carries short frames
NextStreamShort ==
  \/ \E text \in SourceTexts : ReceiveTranslateText(text, TRUE, "p2")
  \/ TextSettingsLoaded
  \/ TransportSteps
  \/ \E lines \in ShortReadValues : ReadChunk(lines)
  \/ ReadDone
  \/ ReadRejects
  \/ ContentTimeoutPasses
  \/ TextStreamingReturned
  \/ TextHistorySaved
  \/ TextCallThrew
  \/ handleCancelTranslation(RequestId)

\* contents of delta frames that build a repeating 10-character pattern, in
\* whole frames or in halves
PatternChunkContents == {"abcdefghij", "abcde", "fghij"}

PatternReadValues == {<<[kind |-> "content", content |-> c]>> : c \in PatternChunkContents}

\* a streaming text request whose stream carries one such frame per read
NextPattern ==
  \/ \E text \in SourceTexts : ReceiveTranslateText(text, TRUE, "p2")
  \/ TextSettingsLoaded
  \/ TransportSteps
  \/ \E lines \in PatternReadValues : ReadChunk(lines)
  \/ ReadDone
  \/ ReadRejects
  \/ ContentTimeoutPasses
  \/ TextStreamingReturned
  \/ TextHistorySaved
  \/ TextCallThrew
  \/ handleCancelTranslation(RequestId)

\* steps the runtime is bound to take once they are due: storage calls
\* settle, timers fire, time passes and continuations run
RuntimeSteps ==
  \/ TextSettingsLoaded
  \/ DelayElapsed
  \/ ContentTimeoutPasses
  \/ TextStreamingReturned
  \/ TextHistorySaved
  \/ TextCallThrew

\* every fetch settles: fetchWithTimeout aborts it when the timeout expires
FetchSettles ==
  \/ \E ok \in BOOLEAN : FetchResolves(ok)
  \/ \E err \in {NetworkError, AbortError} : FetchRejects(err)

\* largest number of content frames of a stream whose broadcasts are followed
MaxBroadcastChunks == 2

\* a streaming text request together with the delivery of its broadcasts
NextBroadcast ==
  \/ \E text \in SourceTexts : ReceiveTranslateText(text, TRUE, "p2")
  \/ TextSettingsLoaded
  \/ TransportSteps
  \/ \E c \in ShortChunkContents :
       Len(arrived) < MaxBroadcastChunks /\ ReadChunk(<<[kind |-> "content", content |-> c]>>)
  \/ ReadDone
  \/ ReadRejects
  \/ TextStreamingReturned
  \/ TextHistorySaved
  \/ TextCallThrew
  \/ handleCancelTranslation(RequestId)
  \/ \E k \in 1..(MaxBroadcastChunks + 1) : TabsQueried(k)

\* largest number of fragments of an input of sanitizeTranslationResult
MaxParts == 3

\* an artifact token, the quote characters, a lead-in prefix, a plain
\* character
SanitizeFragments == {"<|im_end|>", "\"", "'", "Translation: ", "a"}

RECURSIVE ConcatParts(_)
ConcatParts(parts) == IF parts = << >> THEN "" ELSE Head(parts) \o ConcatParts(Tail(parts))

\* the texts of at most MaxParts fragments
SanitizeInputs ==
  {ConcatParts(parts) : parts \in UNION {[1..n -> SanitizeFragments] : n \in 0..MaxParts}}

\* sanitizeTranslationResult(x) is computed
SanitizeOnce ==
  /\ spc = "input"
  /\ once' = sanitizeTranslationResult(sanitizeInput)
  /\ spc' = "once"
  /\ UNCHANGED <<sanitizeInput, twice, unwrapped>>
  /\ UNCHANGED <<configVars, lastResult, registryVars, handlerVars, callVars, streamVars,
                 batchVars, deliveryVars, storeVars>>

\* sanitizeTranslationResult is applied to its own result
SanitizeAgain ==
  /\ spc = "once"
  /\ twice' = sanitizeTranslationResult(once)
  /\ spc' = "twice"
  /\ UNCHANGED <<sanitizeInput, once, unwrapped>>
  /\ UNCHANGED <<configVars, lastResult, registryVars, handlerVars, callVars, streamVars,
                 batchVars, deliveryVars, storeVars>>

\* removeWrappingQuotes(x) is computed
UnwrapQuotes ==
  /\ spc = "quoted"
  /\ unwrapped' = removeWrappingQuotes(sanitizeInput)
  /\ spc' = "unwrapped"
  /\ UNCHANGED <<sanitizeInput, once, twice>>
  /\ UNCHANGED <<configVars, lastResult, registryVars, handlerVars, callVars, streamVars,
                 batchVars, deliveryVars, storeVars>>

\* fragments of texts around quotation marks
QuoteFragments == {"\"", "'", "{", "}", " ", "a"}

QuoteInputs ==
  {ConcatParts(parts) : parts \in UNION {[1..n -> QuoteFragments] : n \in 0..MaxParts}}

NextSanitize == SanitizeOnce \/ SanitizeAgain

NextQuotes == UnwrapQuotes

(***************************************************************************)
(* cryptoService and SettingsService: the apiKey of each profile, in        *)
(* browser storage and in the runtime cache.                                *)
(***************************************************************************)
SALT_LENGTH == 16

IV_LENGTH == 12

\* the most profiles a saved profile list holds
MaxProfiles == 3

\* a 40-digit hexadecimal token, as many services issue for an API key
HexKey == "0123456789abcdef0123456789abcdef01234567"

\* apiKey values a profile is given; DEFAULT_PROFILE has 'test'
KeyTexts == {"", "test", "sk-local", HexKey}

Base64Chars ==
  LowerLetters \cup DOMAIN UpperToLower
  \cup {"0", "1", "2", "3", "4", "5", "6", "7", "8", "9", "+", "/"}

RECURSIVE AllBase64(_)
AllBase64(s) ==
  IF s = "" THEN TRUE
  ELSE SubSeq(s, 1, 1) \in Base64Chars /\ AllBase64(SubSeq(s, 2, Len(s)))

\* atob(value).length for a value without padding or white space; -1 when
\* atob throws
AtobLength(s) ==
  IF AllBase64(s) /\ Len(s) % 4 # 1 THEN (Len(s) * 6) \div 8 ELSE -1

\* a string as the user typed it
Plain(text) == [form |-> "plain", text |-> text]

\* encrypt(plaintext): base64 of salt, iv and the AES-GCM ciphertext of the text
encrypt(text) == [form |-> "cipher", text |-> text]

\* isEncrypted(value): a ciphertext decodes to salt, iv, the text and the tag
isEncrypted(value) ==
  \/ value.form = "cipher"
  \/ AtobLength(value.text) >= SALT_LENGTH + IV_LENGTH + 1

encryptApiKey(apiKey) ==
  IF apiKey = Plain("") THEN apiKey
  ELSE IF isEncrypted(apiKey) THEN apiKey
  ELSE encrypt(apiKey.text)

\* decrypt throws on a value that is no ciphertext; the original is returned
decryptApiKey(apiKey) ==
  IF apiKey = Plain("") THEN apiKey
  ELSE IF ~isEncrypted(apiKey) THEN apiKey
  ELSE IF apiKey.form = "cipher" THEN Plain(apiKey.text)
  ELSE apiKey

\* DEFAULT_SETTINGS.profiles: the one DEFAULT_PROFILE
DefaultKeys == <<Plain("test")>>

EncryptKeys(keys) == [k \in DOMAIN keys |-> encryptApiKey(keys[k])]

DecryptKeys(keys) == [k \in DOMAIN keys |-> decryptApiKey(keys[k])]

\* what getSettings returns and leaves in the cache
LoadedSettings ==
  IF cachedSettings.present THEN cachedSettings
  ELSE [present |-> TRUE,
        keys |-> DecryptKeys(IF storedSettings.present THEN storedSettings.keys
                             ELSE DefaultKeys)]

\* the partial settings a caller hands to updateSettings: with a profiles
\* field or without one
ProfileLists ==
  UNION {[1..n -> {Plain(text) : text \in KeyTexts}] : n \in 1..MaxProfiles}

Partials ==
  {[hasProfiles |-> FALSE, keys |-> << >>]}
  \cup {[hasProfiles |-> TRUE, keys |-> keys] : keys \in ProfileLists}

getSettings ==
  /\ cachedSettings' = LoadedSettings
  /\ UNCHANGED storedSettings
  /\ UNCHANGED <<configVars, lastResult, registryVars, handlerVars, callVars, streamVars,
                 batchVars, deliveryVars, sanitizeVars, historyVars, uiVars>>

updateSettings(partial) ==
  LET current == LoadedSettings
      updated == IF partial.hasProfiles THEN EncryptKeys(partial.keys) ELSE current.keys
  IN /\ storedSettings' = [present |-> TRUE, keys |-> updated]
     /\ cachedSettings' = [present |-> TRUE,
                           keys |-> IF partial.hasProfiles THEN DecryptKeys(updated)
                                    ELSE updated]
     /\ UNCHANGED <<configVars, lastResult, registryVars, handlerVars, callVars, streamVars,
                    batchVars, deliveryVars, sanitizeVars, historyVars, uiVars>>

resetSettings ==
  /\ storedSettings' = [present |-> TRUE, keys |-> EncryptKeys(DefaultKeys)]
  /\ cachedSettings' = [present |-> TRUE, keys |-> DefaultKeys]
  /\ UNCHANGED <<configVars, lastResult, registryVars, handlerVars, callVars, streamVars,
                 batchVars, deliveryVars, sanitizeVars, historyVars, uiVars>>

\* the background script starts again: a new SettingsService, the storage kept
clearCache ==
  /\ cachedSettings' = [present |-> FALSE, keys |-> << >>]
  /\ UNCHANGED storedSettings
  /\ UNCHANGED <<configVars, lastResult, registryVars, handlerVars, callVars, streamVars,
                 batchVars, deliveryVars, sanitizeVars, historyVars, uiVars>>

NextSettings ==
  \/ getSettings
  \/ \E partial \in Partials : updateSettings(partial)
  \/ resetSettings
  \/ clearCache

(***************************************************************************)
(* HistoryService: addItem and setMaxItems.                                 *)
(***************************************************************************)
\* addItem calls followed
MaxHistoryAdds == 4

\* largest limit setMaxItems is given
MaxHistoryItems == 2

\* items.unshift(item); if (items.length > this.maxItems) items.splice(this.maxItems)
Trimmed(items, limit) ==
  IF Len(items) > limit THEN SubSeq(items, 1, limit) ELSE items

\* addItem(item) is called: browser.storage.local.get is awaited
AddItemCalled(c) ==
  /\ addPc[c] = "idle"
  /\ nextItem <= MaxHistoryAdds
  /\ addNew' = [addNew EXCEPT ![c] = nextItem]
  /\ nextItem' = nextItem + 1
  /\ addPc' = [addPc EXCEPT ![c] = "get"]
  /\ UNCHANGED <<historyItems, maxItems, addItems>>
  /\ UNCHANGED <<configVars, lastResult, registryVars, handlerVars, callVars, streamVars,
                 batchVars, deliveryVars, sanitizeVars, settingsVars, uiVars>>

\* the stored list arrives; the item is put first, the list trimmed, and
\* browser.storage.local.set is awaited
AddItemGot(c) ==
  /\ addPc[c] = "get"
  /\ addItems' = [addItems EXCEPT ![c] = Trimmed(<<addNew[c]>> \o historyItems, maxItems)]
  /\ addPc' = [addPc EXCEPT ![c] = "set"]
  /\ UNCHANGED <<historyItems, maxItems, nextItem, addNew>>
  /\ UNCHANGED <<configVars, lastResult, registryVars, handlerVars, callVars, streamVars,
                 batchVars, deliveryVars, sanitizeVars, settingsVars, uiVars>>

\* the list is stored and addItem returns
AddItemSet(c) ==
  /\ addPc[c] = "set"
  /\ historyItems' = addItems[c]
  /\ addPc' = [addPc EXCEPT ![c] = "idle"]
  /\ UNCHANGED <<maxItems, nextItem, addNew, addItems>>
  /\ UNCHANGED <<configVars, lastResult, registryVars, handlerVars, callVars, streamVars,
                 batchVars, deliveryVars, sanitizeVars, settingsVars, uiVars>>

setMaxItems(limit) ==
  /\ maxItems' = limit
  /\ UNCHANGED <<historyItems, nextItem, addPc, addNew, addItems>>
  /\ UNCHANGED <<configVars, lastResult, registryVars, handlerVars, callVars, streamVars,
                 batchVars, deliveryVars, sanitizeVars, settingsVars, uiVars>>

NextHistory ==
  \/ \E c \in Callers : AddItemCalled(c) \/ AddItemGot(c) \/ AddItemSet(c)
  \/ \E limit \in 1..MaxHistoryItems : setMaxItems(limit)

\* setRetryConfig(config) while this request's call is in executeWithRetry:
\* handleSaveSettings after a settings save, or the handler of another
\* request. settings stays what this request read when it was submitted.
setRetryConfig(maxRetries) ==
  /\ tpc \in {"fetching", "delay"}
  /\ retryConfig' = [retryConfig EXCEPT !.maxRetries = maxRetries]
  /\ UNCHANGED <<settings, lastResult, registryVars, handlerVars, callVars, streamVars,
                 batchVars>>
  /\ UNCHANGED <<deliveryVars, sanitizeVars, storeVars>>

\* a text request next to settings saves
NextSaving ==
  \/ NextText
  \/ \E maxRetries \in 0..MaxRetries : setRetryConfig(maxRetries)

(***************************************************************************)
(* The sidebar: TranslatePanel, the listener of Sidebar.tsx and the        *)
(* translation store.                                                      *)
(***************************************************************************)
\* every message accepted, whatever its request id
Accepts_Any(msg) == TRUE

\* payload.requestId === reqId, reqId read from the store when the message arrives
Accepts(msg) == msg.requestId = currentRequestId

\* completeTranslation(text)
completeTranslation(text) ==
  /\ sbStatus' = "completed"
  /\ outputText' = text
  /\ streamingText' = ""
  /\ currentRequestId' = "null"
  /\ sbHistory' = <<text>> \o sbHistory

\* failTranslation(error)
failTranslation ==
  /\ sbStatus' = "error"
  /\ currentRequestId' = "null"
  /\ streamingText' = ""
  /\ UNCHANGED <<outputText, sbHistory>>

\* handleMessage(msg) of the listener the sidebar registers
handleMessage(msg) ==
  IF msg.type = "TRANSLATE_TEXT_STREAM_CHUNK" /\ Accepts(msg)
  THEN /\ sbStatus' = "streaming"
       /\ streamingText' = streamingText \o msg.text
       /\ UNCHANGED <<currentRequestId, outputText, sbHistory>>
  ELSE IF msg.type \in {"TRANSLATE_TEXT_STREAM_END", "TRANSLATE_TEXT_RESULT"} /\ Accepts(msg)
  THEN completeTranslation(msg.text)
  ELSE IF msg.type = "TRANSLATE_TEXT_ERROR" /\ Accepts(msg)
  THEN failTranslation
  ELSE UNCHANGED <<sbStatus, currentRequestId, outputText, streamingText, sbHistory>>

\* handleTranslate: startTranslation(requestId) and the TRANSLATE_TEXT message
\* is sent; its resolved value is not looked at. The button is the cancel
\* button while a translation is in progress. The first translation has the
\* id the background is followed for, a later one another id.
handleTranslate(requestId) ==
  /\ sbStatus \notin {"translating", "streaming"}
  /\ requestId = IF sbStatus = "idle" THEN RequestId ELSE "r2"
  /\ sbStatus' = "translating"
  /\ currentRequestId' = requestId
  /\ outputText' = ""
  /\ streamingText' = ""
  /\ UNCHANGED <<sbHistory, sbSeen>>
  /\ UNCHANGED <<configVars, lastResult, registryVars, handlerVars, callVars, streamVars,
                 batchVars, deliveryVars, sanitizeVars, settingsVars, historyVars,
                 scopeVars, barVars>>

\* handleCancel: CANCEL_TRANSLATION is sent and cancelTranslation() called
handleCancel ==
  /\ currentRequestId # "null"
  /\ sbStatus' = "cancelled"
  /\ currentRequestId' = "null"
  /\ streamingText' = ""
  /\ UNCHANGED <<outputText, sbHistory, sbSeen>>
  /\ UNCHANGED <<configVars, lastResult, registryVars, handlerVars, callVars, streamVars,
                 batchVars, deliveryVars, sanitizeVars, settingsVars, historyVars,
                 scopeVars, barVars>>

\* the next message broadcastMessage handed to runtime.sendMessage reaches
\* the sidebar's listener
SidebarReceives ==
  /\ sbSeen < Len(events)
  /\ handleMessage(events[sbSeen + 1])
  /\ sbSeen' = sbSeen + 1
  /\ UNCHANGED <<configVars, lastResult, registryVars, handlerVars, callVars, streamVars,
                 batchVars, deliveryVars, sanitizeVars, settingsVars, historyVars,
                 scopeVars, barVars>>

\* the TRANSLATE_TEXT message of the sidebar's first translation arrives in
\* the background, with the stream flag and the profile id of the settings
SidebarRequestArrives(text) ==
  /\ sbStatus # "idle"
  /\ ReceiveTranslateText(text, settings.streamingEnabled, settings.activeProfileId)

\* a text request of the sidebar, its broadcasts and the sidebar's store
NextSidebar ==
  \/ \E requestId \in RequestIds : handleTranslate(requestId)
  \/ \E text \in SourceTexts : SidebarRequestArrives(text)
  \/ TextSettingsLoaded
  \/ TransportSteps
  \/ JsonSteps
  \/ \E c \in ShortChunkContents :
       Len(arrived) < MaxBroadcastChunks /\ ReadChunk(<<[kind |-> "content", content |-> c]>>)
  \/ ReadDone
  \/ ReadRejects
  \/ TextStreamingReturned
  \/ TextTranslateReturned
  \/ TextHistorySaved
  \/ TextCallThrew
  \/ handleCancel
  \/ handleCancelTranslation(RequestId)
  \/ SidebarReceives

(***************************************************************************)
(* background/index.ts: activeRequests with several requests in flight.    *)
(***************************************************************************)
\* a TRANSLATE_TEXT or TRANSLATE_PAGE message with a new id arrives: the
\* handler creates its AbortController and registers it
RegisterRequest(id) ==
  /\ controllers[id].handler = "none"
  /\ controllers' = [controllers EXCEPT ![id] = [handler |-> "running", aborted |-> FALSE]]
  /\ registry' = registry \cup {id}
  /\ UNCHANGED <<configVars, lastResult, registryVars, handlerVars, callVars, streamVars,
                 batchVars, deliveryVars, sanitizeVars, settingsVars, historyVars,
                 sidebarVars, barVars>>

\* a cancel that aborts every registered controller and empties the registry
CancelRequest_AbortsAll(id) ==
  /\ controllers' = [other \in RequestIds |->
                       IF other \in registry THEN [controllers[other] EXCEPT !.aborted = TRUE]
                       ELSE controllers[other]]
  /\ registry' = {}
  /\ UNCHANGED <<configVars, lastResult, registryVars, handlerVars, callVars, streamVars,
                 batchVars, deliveryVars, sanitizeVars, settingsVars, historyVars,
                 sidebarVars, barVars>>

\* handleCancelTranslation(id) with the registry as it is
CancelRequest(id) ==
  /\ IF id \in registry
     THEN /\ controllers' = [controllers EXCEPT ![id].aborted = TRUE]
          /\ registry' = registry \ {id}
     ELSE UNCHANGED <<controllers, registry>>
  /\ UNCHANGED <<configVars, lastResult, registryVars, handlerVars, callVars, streamVars,
                 batchVars, deliveryVars, sanitizeVars, settingsVars, historyVars,
                 sidebarVars, barVars>>

\* the handler of request id returns or throws: its finally block
FinishRequest(id) ==
  /\ controllers[id].handler = "running"
  /\ controllers' = [controllers EXCEPT ![id].handler = "finished"]
  /\ registry' = registry \ {id}
  /\ UNCHANGED <<configVars, lastResult, registryVars, handlerVars, callVars, streamVars,
                 batchVars, deliveryVars, sanitizeVars, settingsVars, historyVars,
                 sidebarVars, barVars>>

(***************************************************************************)
(* utils/progressBar.ts in the content page.  An element is a number; the  *)
(* document holds at most one element with id lta-progress-bar.  A timer   *)
(* keeps the element it was scheduled for and the number of the show that  *)
(* preceded it.                                                            *)
(***************************************************************************)
MaxShows == 5

\* SHOW_PROGRESS_BAR: reuse the element found by getElementById, else create one
showProgressBar ==
  /\ shownFor < MaxShows
  /\ shownFor' = shownFor + 1
  /\ IF barElement # 0
     THEN UNCHANGED <<barElement, barElements>>
     ELSE /\ barElements' = barElements + 1
          /\ barElement' = barElements + 1
  /\ UNCHANGED barTimers
  /\ UNCHANGED <<configVars, lastResult, registryVars, handlerVars, callVars, streamVars,
                 batchVars, deliveryVars, sanitizeVars, settingsVars, historyVars,
                 sidebarVars, scopeVars>>

\* HIDE_PROGRESS_BAR: schedule progressBar.remove() on the element found now
removeProgressBar ==
  /\ IF barElement # 0
     THEN barTimers' = barTimers \cup {[element |-> barElement, shownFor |-> shownFor]}
     ELSE UNCHANGED barTimers
  /\ UNCHANGED <<barElement, barElements, shownFor>>
  /\ UNCHANGED <<configVars, lastResult, registryVars, handlerVars, callVars, streamVars,
                 batchVars, deliveryVars, sanitizeVars, settingsVars, historyVars,
                 sidebarVars, scopeVars>>

\* the 500 ms timer of removeProgressBar fires (timers fire in the order
\* they were scheduled): the element it holds leaves the document
TimerFires(t) ==
  /\ t \in barTimers
  /\ \A u \in barTimers : t.shownFor <= u.shownFor
  /\ barTimers' = barTimers \ {t}
  /\ barElement' = IF barElement = t.element THEN 0 ELSE barElement
  /\ UNCHANGED <<barElements, shownFor>>
  /\ UNCHANGED <<configVars, lastResult, registryVars, handlerVars, callVars, streamVars,
                 batchVars, deliveryVars, sanitizeVars, settingsVars, historyVars,
                 sidebarVars, scopeVars>>

NextProgressBar ==
  \/ showProgressBar
  \/ removeProgressBar
  \/ \E t \in barTimers : TimerFires(t)

NextScopes ==
  \E id \in RequestIds : RegisterRequest(id) \/ CancelRequest(id) \/ FinishRequest(id)

\* a streaming text request next to another request using the service
NextConcurrent ==
  \/ NextStreamShort
  \/ \E text \in OtherResults : OtherCallStores(text)

Next ==
  NextText \/ NextStream \/ NextStreamShort \/ NextBroadcast \/ NextPage \/ NextRequests \/ NextSanitize
  \/ NextConcurrent \/ NextSettings \/ NextHistory \/ NextSaving \/ NextPattern \/ NextQuotes \/ NextSidebar \/ NextScopes \/ NextProgressBar

Spec == Init /\ [][Next]_vars

\* sanitizeTranslationResult on every input text, no request in progress
InitSanitize ==
  /\ InitService
  /\ settings = [retryCount |-> 0, historyEnabled |-> FALSE, streamingEnabled |-> FALSE,
                 profiles |-> << >>, activeProfileId |-> "p2"]
  /\ spc = "input"
  /\ sanitizeInput \in SanitizeInputs
  /\ once = ""
  /\ twice = ""
  /\ unwrapped = ""
  /\ InitStores

\* removeWrappingQuotes on every input text, no request in progress
InitQuotes ==
  /\ InitService
  /\ settings = [retryCount |-> 0, historyEnabled |-> FALSE, streamingEnabled |-> FALSE,
                 profiles |-> << >>, activeProfileId |-> "p2"]
  /\ spc = "quoted"
  /\ sanitizeInput \in QuoteInputs
  /\ once = ""
  /\ twice = ""
  /\ unwrapped = ""
  /\ InitStores

SpecQuotes == InitQuotes /\ [][NextQuotes]_vars

SpecSanitize == InitSanitize /\ [][NextSanitize]_vars

\* the settings and the history stores on their own, no request in progress
InitIdle ==
  /\ Init
  /\ settings = [retryCount |-> 0, historyEnabled |-> FALSE, streamingEnabled |-> FALSE,
                 profiles |-> << >>, activeProfileId |-> "p2"]

SpecSettings == InitIdle /\ [][NextSettings]_vars

SpecScopes == InitIdle /\ [][NextScopes]_vars

SpecProgressBar == InitIdle /\ [][NextProgressBar]_vars

SpecHistory == InitIdle /\ [][NextHistory]_vars

\* text requests with streaming disabled in the settings
InitText == Init /\ ~settings.streamingEnabled

SpecText == InitText /\ [][NextText]_vars

SpecSaving == InitText /\ [][NextSaving]_vars

\* largest retry count of the settings of a streaming request
MaxStreamRetries == 1

\* streaming text requests
InitStream ==
  /\ Init
  /\ settings.streamingEnabled
  /\ settings.retryCount <= MaxStreamRetries
  /\ settings.profiles # << >>

SpecStream == InitStream /\ [][NextStream]_vars

SpecStreamShort == InitStream /\ [][NextStreamShort]_vars

SpecPattern == InitStream /\ [][NextPattern]_vars

\* a pending read of a body whose signal is aborted rejects
AbortedReadRejects == aborted /\ ReadRejects

\* the same with the progress the runtime guarantees; nothing obliges the
\* transport to deliver another chunk or to close the body
FairSpecStreamShort ==
  /\ SpecStreamShort
  /\ WF_vars(RuntimeSteps)
  /\ WF_vars(FetchSettles)
  /\ WF_vars(AbortedReadRejects)

SpecConcurrent == InitStream /\ [][NextConcurrent]_vars

\* streaming text requests and the delivery of their broadcasts to a tab
SpecBroadcast == InitStream /\ [][NextBroadcast]_vars

\* largest retry count of the settings when both kinds of request are followed
MaxRequestRetries == 1

InitRequests == InitText /\ settings.retryCount <= MaxRequestRetries

\* a sidebar translation, streaming or not as the settings say
InitSidebar == Init /\ settings.retryCount <= MaxRequestRetries

SpecSidebar == InitSidebar /\ [][NextSidebar]_vars

\* text and page requests with streaming disabled in the settings
SpecRequests == InitRequests /\ [][NextRequests]_vars

\* page requests; the settings a page request does not read are held fixed
InitPage == InitRequests /\ ~settings.historyEnabled

SpecPage == InitPage /\ [][NextPage]_vars

(***************************************************************************)
(* Properties of the retry loop.                                           *)
(***************************************************************************)
\* the service call ended because executeWithRetry rethrew a rejection of
\* fetch while the request's signal was never aborted
RetryLoopGaveUp ==
  /\ tpc = "threw"
  /\ ~aborted
  /\ tError \in {NetworkError, AbortError}

\* C1: with maxRetries = r and a transport that fails on every attempt, with
\* no cancellation, executeWithRetry makes exactly r + 1 attempts before it
\* propagates the last error.
C1_AttemptsBeforeGivingUp ==
  RetryLoopGaveUp => fetchCount = retryConfig.maxRetries + 1

\* C2: in translate, a non-2xx response is retried like a transport failure:
\* r + 1 requests have been made when the API error is surfaced.
C2_Non2xxRetried ==
  (tmode = "translate" /\ tpc = "threw" /\ tError = ApiError)
    => fetchCount = retryConfig.maxRetries + 1

\* C3: cancellation is final in the retry loop: once the request's signal is
\* aborted, no further transport attempt is made, whether it fires before the
\* first attempt, during an attempt or during the wait between attempts.
C3_NoAttemptAfterAbort ==
  [][aborted => fetchCount' = fetchCount]_vars

\* the signal fired during the wait after a failed attempt and the loop ended
\* with retries left
C3_Witness ==
  /\ aborted
  /\ tpc = "threw"
  /\ tError = CancelledError
  /\ attempt = 1
  /\ fetchCount = 1
  /\ retryConfig.maxRetries = 2

(***************************************************************************)
(* Properties of cancellation and of translateBatch.                       *)
(***************************************************************************)
\* C4: after handleCancelTranslation(requestId) has aborted the controller
\* registered for the request, no further chunk, final result, stream-end or
\* page progress message is emitted for it.
C4_NoEventAfterCancel ==
  [][aborted => events' = events]_vars

\* what translateBatch owes for unit k, given how the unit resolved
ExpectedResult(texts, log, k) ==
  IF IsBlank(texts[k]) THEN ""
  ELSE IF log[k].kind = "returned" THEN log[k].text
  ELSE texts[k]

\* C5: a translateBatch that is not cancelled returns one entry per unit in
\* input order: '' for a blank unit, the translated text where translate
\* succeeded, the original text where it threw; a unit's failure neither ends
\* the batch nor shifts later entries.
C5_BatchResults ==
  /\ (bpc = "returned" /\ ~aborted) =>
        /\ Len(results) = Len(contentResponse.texts)
        /\ Len(unitLog) = Len(contentResponse.texts)
        /\ \A k \in 1..Len(results) :
              results[k] = ExpectedResult(contentResponse.texts, unitLog, k)
  /\ bpc = "threw" => aborted

\* a batch of two units returned: the first failed and kept its original
\* text, the second was translated
C5_Witness ==
  /\ bpc = "returned"
  /\ ~aborted
  /\ Len(results) = 2
  /\ unitLog[1].kind = "threw"
  /\ unitLog[2].kind = "returned"
  /\ results[1] = contentResponse.texts[1]
  /\ results[2] = "'Y'"

\* C6: onProgress fires exactly once per resolved unit, with completed = the
\* unit's 1-based position and total = n, so completed runs 1, 2, ... n; the
\* call for a unit has fired when the transport call of the next unit is
\* issued.
C6_ProgressPerUnit ==
  hpc \in {"awaitBatch", "awaitApply"} =>
    /\ Len(progressCalls) = Len(results)
    /\ \A k \in 1..Len(progressCalls) :
          /\ progressCalls[k].completed = k
          /\ progressCalls[k].total = Len(contentResponse.texts)
          /\ progressCalls[k].result = results[k]
    /\ bpc = "awaitTranslate" => Len(progressCalls) = i
    /\ bpc = "returned" => Len(progressCalls) = Len(contentResponse.texts)

\* the transport call of the second unit is in flight after the first unit
\* was translated and reported
C6_Witness ==
  /\ bpc = "awaitTranslate"
  /\ tpc = "fetching"
  /\ i = 1
  /\ Len(progressCalls) = 1
  /\ progressCalls[1].completed = 1
  /\ progressCalls[1].total = 2
  /\ unitLog[1].kind = "returned"

\* C7: whenever the signal is aborted while translateBatch is running, also
\* during the translate call of the last unit, translateBatch raises the
\* cancellation error instead of returning its list.
C7_CancelledBatchThrows ==
  (hpc = "awaitBatch" /\ bpc = "returned") => ~aborted

(***************************************************************************)
(* Properties of handleTranslateText and of the streaming safety limits.   *)
(***************************************************************************)
\* the handler returned a final result or the bare success object
CompletedSuccessfully ==
  response.type \in {"TRANSLATE_TEXT_RESULT", "TRANSLATE_TEXT_STREAM_END", "success"}

\* C8: handleTranslateText calls historyService.addItem exactly once when the
\* request completes successfully with history enabled, streaming or not and
\* whatever the final text is, and never when history is disabled or the
\* request fails or is cancelled.
C8_HistoryOncePerSuccess ==
  hpc = "done" =>
    Len(historyCalls) = IF CompletedSuccessfully /\ settings.historyEnabled THEN 1 ELSE 0

\* C9: in translateStreaming with an input of length L the accumulated text
\* never exceeds max(10 * L, 1000), at any onChunk call and at the end; when a
\* chunk would overflow, only the part that fits is appended and delivered,
\* the accumulated text is then exactly max(10 * L, 1000) long and the stream
\* stops.
C9_OutputLengthBound ==
  tmode = "stream" =>
    LET maxLen == MaxOutputLength(callText)
        n      == Len(arrived)
        calls  == Len(chunkCalls)
    IN /\ Len(accumulated) <= maxLen
       /\ \A k \in 1..calls : Len(chunkCalls[k].accumulated) <= maxLen
       /\ stopReason = "max-length" =>
            /\ tpc = "returned"
            /\ Len(accumulated) = maxLen
            /\ IF calls = n
               THEN LET before == IF n = 1 THEN "" ELSE chunkCalls[n - 1].accumulated
                        fits   == maxLen - Len(before)
                    IN /\ fits < Len(arrived[n])
                       /\ chunkCalls[n].chunk = SliceTo(arrived[n], fits)
                       /\ chunkCalls[n].accumulated = before \o SliceTo(arrived[n], fits)
                       /\ accumulated = chunkCalls[n].accumulated
               ELSE /\ calls = n - 1
                    /\ calls > 0
                    /\ Len(chunkCalls[calls].accumulated) = maxLen

\* an input of 101 characters: the third long chunk overflowed 1010 and its
\* first 212 characters were delivered
C9_Witness ==
  /\ tmode = "stream"
  /\ stopReason = "max-length"
  /\ Len(callText) = 101
  /\ Len(accumulated) = 1010
  /\ Len(chunkCalls) = 3
  /\ Len(chunkCalls[3].chunk) = 212

\* the last n contents that arrived are one and the same
LastArrivedSame(n) ==
  /\ Len(arrived) >= n
  /\ \A k \in (Len(arrived) - n + 1)..Len(arrived) : arrived[k] = arrived[Len(arrived)]

GuardStopped == tmode = "stream" /\ stopReason \in {"max-length", "repetition"}

\* C11: a stop raised by the length or repetition guard is not a failure of
\* the request: translateStreaming returns normally, the text accumulated so
\* far becomes the final result, and the request is finalized like a normal
\* completion: a stream-end message is emitted and returned, a history entry
\* is added when history is enabled, and no error response is given.
C11_GuardStopFinalizes ==
  GuardStopped =>
    /\ tpc = "returned"
    /\ tResult = sanitizeAccumulatedResult(accumulated)
    /\ lastResult = tResult
    /\ hpc = "done" =>
         /\ response.type = "TRANSLATE_TEXT_STREAM_END"
         /\ Len(events) > 0
         /\ events[Len(events)] = response
         /\ Len(historyCalls) = IF settings.historyEnabled THEN 1 ELSE 0

\* C12: a streaming call whose transport has delivered no content for more
\* than contentTimeoutMs eventually leaves the read loop (with a timeout stop,
\* finalizing with the accumulated text), even if the transport never
\* delivers anything again and never closes.
C12_SilentStreamTimesOut ==
  (tmode = "stream" /\ tpc = "reading" /\ stale) ~> (tpc # "reading")

\* C13: every consumer of a streaming request receives the chunk messages
\* in the order they were produced and the stream-end message after every
\* chunk message, however the asynchronous steps of the broadcasts
\* interleave. (events holds the messages in the order they were produced.)
C13_OrderedDelivery ==
  \A a, b \in 1..Len(tabInbox) : a < b => tabInbox[a] < tabInbox[b]

\* c1 \o c2 \o ... \o cn
RECURSIVE Concat(_)
Concat(seq) == IF seq = << >> THEN "" ELSE Head(seq) \o Concat(Tail(seq))

\* the k-th onChunk call delivered the k-th content whole, with all contents
\* up to it as the accumulated text
DeliveredWhole(k) ==
  /\ chunkCalls[k].chunk = arrived[k]
  /\ chunkCalls[k].accumulated = Concat(SubSeq(arrived, 1, k))

\* C14 as stated: a transport emitting the contents c1..cn yields the onChunk
\* calls (c1, c1), (c2, c1c2), ... (cn, c1..cn) and the final result is the
\* sanitized c1..cn.
C14_EveryChunkDelivered ==
  (tmode = "stream" /\ tpc = "returned") =>
    /\ Len(chunkCalls) = Len(arrived)
    /\ \A k \in 1..Len(arrived) : DeliveredWhole(k)
    /\ tResult = sanitizeAccumulatedResult(Concat(arrived))

\* C14: every onChunk(chunk, accumulated) call has accumulated = the previous
\* accumulated text followed by chunk, starting from the empty string; unless
\* the length or the repetition guard stops the stream, the contents c1..cn
\* yield the accumulated values c1, c1c2, ... c1..cn and the final result is
\* the sanitized c1..cn; when a guard stops the stream at a content, the
\* contents before it were delivered in this way and the final result is the
\* sanitized text accumulated so far.
C14_ChunksAccumulate ==
  tmode = "stream" =>
    /\ \A k \in 1..Len(chunkCalls) :
          chunkCalls[k].accumulated =
            (IF k = 1 THEN "" ELSE chunkCalls[k - 1].accumulated) \o chunkCalls[k].chunk
    /\ accumulated =
         IF chunkCalls = << >> THEN "" ELSE chunkCalls[Len(chunkCalls)].accumulated
    /\ Len(chunkCalls) \in {Len(arrived) - 1, Len(arrived)}
    /\ \A k \in 1..(Len(arrived) - 1) : DeliveredWhole(k)
    /\ ~GuardStopped =>
         /\ Len(chunkCalls) = Len(arrived)
         /\ \A k \in 1..Len(arrived) : DeliveredWhole(k)
    /\ tpc = "returned" => tResult = sanitizeAccumulatedResult(accumulated)

\* the stream " ", "ab", " " ran to its end: three calls, and the final
\* result is the trimmed text
C14_Witness ==
  /\ tmode = "stream"
  /\ stopReason = "done"
  /\ arrived = <<" ", "ab", " ">>
  /\ Len(chunkCalls) = 3
  /\ chunkCalls[3].accumulated = " ab "
  /\ tResult = "ab"

(***************************************************************************)
(* Properties of the registry of active requests.                          *)
(***************************************************************************)
\* C15: the registry holds the entry of a request id exactly from the start
\* of its handling until the request completes, fails or is cancelled: none
\* before it is submitted, one while it is handled and not cancelled, none
\* after handleCancelTranslation aborted it and none after the handler
\* finished on any path; it never holds more than one.
C15_RegistryLifetime ==
  /\ Cardinality(activeRequests) <= 1
  /\ hpc = "idle" => activeRequests = {}
  /\ (hpc \notin {"idle", "done"} /\ ~aborted) => activeRequests = {RequestId}
  /\ aborted => RequestId \notin activeRequests
  /\ hpc = "done" => RequestId \notin activeRequests

\* the request was cancelled while its service call was running
C15_Witness ==
  /\ hpc \in {"awaitCall", "awaitBatch"}
  /\ tpc = "fetching"
  /\ aborted
  /\ cancelCalls = 1
  /\ activeRequests = {}

\* C16: a CANCEL_TRANSLATION for an id that has no entry in the registry (it was
\* never submitted, its handler has finished, or it was cancelled before) is a
\* no-op: no controller is aborted, the registry is unchanged and no message
\* is emitted; only the count of handled cancel messages moves.
C16_UnknownCancelIsNoOp ==
  [][(cancelCalls' # cancelCalls /\ RequestId \notin activeRequests)
       => UNCHANGED <<aborted, activeRequests, hideBarSent, configVars, lastResult,
                      handlerVars, callVars, streamVars, batchVars, queried, tabInbox>>]_vars

\* a second cancel was handled after the first one had aborted the request
C16_Witness ==
  /\ cancelCalls = 2
  /\ aborted
  /\ hideBarSent = 1
  /\ RequestId \notin activeRequests

\* the request passed profile resolution: its handler went on, or finished
\* with something other than the resolution error
ProfileResolved ==
  /\ hpc \notin {"idle", "getSettings"}
  /\ ~(hpc = "done" /\ response.type \in {"TRANSLATE_TEXT_ERROR", "TRANSLATE_PAGE_ERROR"}
                     /\ response.message = ProfileNotFound.message)

\* the resolution failed: error response, no transport call, no registry entry
ProfileResolutionFailed ==
  /\ hpc = "done"
  /\ response.type \in {"TRANSLATE_TEXT_ERROR", "TRANSLATE_PAGE_ERROR"}
  /\ response.message = ProfileNotFound.message
  /\ fetchCount = 0
  /\ tpc = "idle"
  /\ message.requestId \notin activeRequests

C17_WitnessEmpty ==
  /\ settings.profiles = << >>
  /\ ProfileResolutionFailed

\* the endpoint the transport requests of the current request go to
RequestEndpoint ==
  apiEndpoint(ResolveProfile(settings.profiles, EffectiveProfileId(message.profileId)))

\* C18: a transport request is attempted only to an endpoint that passes the
\* endpoint trust rule (host localhost/loopback, or scheme https).
C18_OnlyTrustedEndpoints ==
  fetchCount > 0 => validateApiEndpoint(RequestEndpoint)

\* an attempt ran into the timeout of fetchWithTimeout: fetch rejected with an
\* AbortError while the request's own signal was never aborted
TimeoutSurfaced ==
  /\ tpc = "threw"
  /\ ~aborted
  /\ tError = AbortError

\* C19 (attempts): a timeout is retried, so r + 1 attempts have been made when
\* the timeout error is surfaced.
C19_TimeoutIsRetried ==
  TimeoutSurfaced => fetchCount = retryConfig.maxRetries + 1

\* C19 (error): the error response of a request that timed out differs from
\* the one of a request the user cancelled.
C19_TimeoutNotCancelled ==
  (TimeoutSurfaced /\ hpc = "done" /\ response.type = "TRANSLATE_TEXT_ERROR")
    => response.code # "CANCELLED"

\* C19: expiry of the per-request timeout is a retryable failure and is told
\* apart from a user cancellation.
C19_TimeoutRetryable == C19_TimeoutIsRetried /\ C19_TimeoutNotCancelled

\* C20: sanitizeTranslationResult is idempotent: applying it to its own result
\* changes nothing, sanitize(sanitize(x)) = sanitize(x).
C20_SanitizeIdempotent ==
  spc = "twice" => twice = once

\* C21 (non-streaming): the text reported as final is the output of the
\* sanitization pipeline applied to the raw model output, which is what
\* translate() returned (tResult = sanitizeTranslationResult(content)); the
\* history entry of the request carries the same text.
C21_FinalIsSanitizedRaw ==
  (hpc = "done" /\ response.type = "TRANSLATE_TEXT_RESULT") =>
    /\ response.text = tResult
    /\ \A k \in 1..Len(historyCalls) : historyCalls[k].translatedText = response.text

\* the part of C21 about the two records of one request: the final event and
\* the history entry carry the same text
C21_HistoryMatchesEvent ==
  (hpc = "done" /\ response.type \in {"TRANSLATE_TEXT_RESULT", "TRANSLATE_TEXT_STREAM_END"}) =>
    \A k \in 1..Len(historyCalls) : historyCalls[k].translatedText = response.text

\* a translate call is under way: between its start and its return or throw
CallInFlight == tpc \in {"fetching", "delay", "json", "errText"}

\* C22: within one translateBatch call the units are processed one after the
\* other: the loop moves to another unit only when the call of the current one
\* has settled (all retries included), and the one call under way is the call
\* of unit i, started when exactly the units before it had resolved.
C22_SequentialUnits ==
  [][/\ (hpc = "awaitBatch" /\ i' # i) => tpc \in {"returned", "threw"}
     /\ (hpc' = "awaitBatch" /\ CallInFlight') => bpc' = "awaitTranslate"
     /\ (hpc' = "awaitBatch" /\ bpc' = "awaitTranslate") =>
           /\ Len(results') = i'
           /\ Len(unitLog') = i'
           /\ callText' = contentResponse'.texts[i' + 1]]_vars

\* the call of the second unit is under way after the first unit resolved
\* through a call of its own
C22_Witness ==
  /\ hpc = "awaitBatch"
  /\ bpc = "awaitTranslate"
  /\ i = 1
  /\ tpc = "fetching"
  /\ unitLog[1].kind \in {"returned", "threw"}

RECURSIVE SumFetches(_)
SumFetches(log) == IF log = << >> THEN 0 ELSE Head(log).fetches + SumFetches(Tail(log))

\* transport calls of the batch so far: those of the resolved units and those
\* of the unit whose call is under way
BatchFetches ==
  SumFetches(unitLog) + (IF bpc = "awaitTranslate" THEN fetchCount ELSE 0)

\* units of the page among the first n that are not blank
NonBlankUnits(n) ==
  Cardinality({k \in 1..n : ~(contentResponse.texts[k] = ""
                               \/ Len(Trim(contentResponse.texts[k])) = 0)})

\* C23: every empty or whitespace-only unit of a batch resolves to the empty
\* string, with a progress report and without a transport call, so the batch
\* never makes more than (non-blank units) x (maxRetries + 1) transport calls.
C23_BlankUnitsSkipTransport ==
  hpc = "awaitBatch" =>
    /\ \A k \in 1..Len(unitLog) :
          (contentResponse.texts[k] = "" \/ Len(Trim(contentResponse.texts[k])) = 0) =>
            /\ results[k] = ""
            /\ unitLog[k].fetches = 0
            /\ progressCalls[k] = [completed |-> k, total |-> Len(contentResponse.texts),
                                   result |-> ""]
    /\ BatchFetches <= NonBlankUnits(Len(contentResponse.texts)) * (retryConfig.maxRetries + 1)

\* a batch with a whitespace-only unit and a unit that took every attempt
C23_Witness ==
  /\ hpc = "awaitBatch"
  /\ bpc = "returned"
  /\ Len(unitLog) = 2
  /\ contentResponse.texts[1] = " "
  /\ unitLog[2].fetches = retryConfig.maxRetries + 1
  /\ retryConfig.maxRetries > 0

\* C24: the retry policy is not applied inside an opened stream. From the
\* moment translateStreaming reads the body, no step of the call makes another
\* transport request (whatever happens: read error, guard stop, cancel), and
\* the call ends in exactly one way: returned after the end of the stream or a
\* guard stop, or thrown with an error; once ended it stays ended.
C24_NoRetryInsideStream ==
  [][/\ (tmode = "stream" /\ tpc = "reading") =>
          /\ fetchCount' = fetchCount
          /\ attempt' = attempt
          /\ tpc' \in {"reading", "returned", "threw"}
          /\ tpc' = "returned" => stopReason' \in {"done", "max-length", "repetition", "timeout"}
          /\ tpc' = "threw" => stopReason' = "none" /\ tError' # NoError
     /\ (tmode = "stream" /\ tpc \in {"returned", "threw"}) =>
          /\ fetchCount' = fetchCount
          /\ tpc' = tpc
          /\ stopReason' = stopReason]_vars

\* a stream that had delivered content failed on a read, with a retry left
\* and no cancellation
C24_Witness ==
  /\ tmode = "stream"
  /\ tpc = "threw"
  /\ tError = NetworkError
  /\ ~aborted
  /\ Len(arrived) > 0
  /\ fetchCount = 1
  /\ retryConfig.maxRetries >= 1

\* C25: a consumer that is not listening does not turn a successful
\* translation into a failed one: a page request whose translateBatch returned
\* its list ends with the completion response, whatever became of the delivery
\* of its events.
C25_DeliveryNeverFailsRequest ==
  (hpc = "done" /\ message.type = "TRANSLATE_PAGE" /\ bpc = "returned")
    => response.type = "TRANSLATE_PAGE_COMPLETE"

\* C26: requests in flight at the same time do not share translation state:
\* the final text a streaming request reports and records is derived from the
\* chunks of its own stream only, whatever another request's call stored in
\* the service meanwhile.
C26_OwnChunksOnly ==
  (hpc = "done" /\ tmode = "stream" /\ tpc = "returned") =>
    \E own \in {sanitizeAccumulatedResult(applyConversions(sanitizeAccumulatedResult(accumulated)))} :
      /\ result = own
      /\ response.type = "TRANSLATE_TEXT_STREAM_END" => response.text = own
      /\ \A k \in 1..Len(historyCalls) : historyCalls[k].translatedText = own

\* a streaming request finished with its own text although another request's
\* call stored its result in the service while the request was being handled
C26_Witness ==
  /\ hpc = "done"
  /\ tmode = "stream"
  /\ response.type = "TRANSLATE_TEXT_STREAM_END"
  /\ response.text = "ab"
  /\ lastResult = "other"

\* the text the page handler sends for a result of translateBatch
SentText(res) == sanitizeAccumulatedResult(applyConversions(res))

\* C27: in handleTranslatePage every single-node event carries the id of the
\* unit that has just resolved (the id at index completed - 1 of the ids the
\* content script supplied) with the text of that unit, and the final
\* aggregate carries the supplied ids with one text per id, aligned index by
\* index with the results of the batch.
C27_EventsAlignedWithUnits ==
  message.type = "TRANSLATE_PAGE" =>
    \A n \in 1..Len(events) :
      /\ events[n].type = "APPLY_SINGLE_NODE_TRANSLATION" =>
            \E k \in {events[n].translatedNodes} :
              /\ k \in 1..Len(results)
              /\ events[n].nodeId = contentResponse.nodeIds[k]
              /\ events[n].text = SentText(results[k])
              /\ events[n].totalNodes = Len(contentResponse.texts)
      /\ events[n].type = "APPLY_PAGE_TRANSLATION" =>
            /\ events[n].nodeIds = contentResponse.nodeIds
            /\ Len(events[n].translatedTexts) = Len(contentResponse.nodeIds)
            /\ \A k \in 1..Len(results) : events[n].translatedTexts[k] = SentText(results[k])

\* a page of two translated units: the single-node event of the second unit
\* and the aggregate have been sent
C27_Witness ==
  /\ message.type = "TRANSLATE_PAGE"
  /\ Len(results) = 2
  /\ \E n \in 1..Len(events) :
        /\ events[n].type = "APPLY_SINGLE_NODE_TRANSLATION"
        /\ events[n].nodeId = "lta-node-1"
        /\ events[n].text = "Y"
  /\ \E n \in 1..Len(events) : events[n].type = "APPLY_PAGE_TRANSLATION"

\* C28: every non-empty profile apiKey in browser storage is a ciphertext,
\* whatever getSettings, updateSettings and resetSettings calls came before
C28_StoredKeysEncrypted ==
  storedSettings.present =>
    \A k \in DOMAIN storedSettings.keys :
      storedSettings.keys[k] # Plain("") => storedSettings.keys[k].form = "cipher"

\* C29: when an addItem call completes, the stored list has at most maxItems
\* entries, the new item is first, and the items behind it are the newest of
\* the list stored before, in their order
AddItemCompletes(c) ==
  AddItemSet(c) =>
    /\ Len(historyItems') <= maxItems
    /\ Len(historyItems') >= 1
    /\ Head(historyItems') = addNew[c]
    /\ Tail(historyItems') = SubSeq(historyItems, 1, Len(historyItems') - 1)

C29_HistoryBoundedNewestFirst == [][\A c \in Callers : AddItemCompletes(c)]_vars

\* C30: the attempts of a call follow the retry policy of its submission:
\* when every attempt failed with a network error and the request was not
\* cancelled, the settings' retryCount + 1 requests were made, whatever
\* setRetryConfig calls happened while the call was retrying or waiting
C30_PolicyOfSubmissionGoverns ==
  (tpc = "threw" /\ ~aborted /\ tError = NetworkError)
    => fetchCount = settings.retryCount + 1

\* the last 30 characters of text are three equal consecutive windows of
\* some length p from 10 to a third of 30
ThreeEqualWindows(text) ==
  /\ Len(text) >= 30
  /\ \E p \in 10..(30 \div 3) :
       LET n == Len(text)
       IN /\ SubSeq(text, n - 3 * p + 1, n - 2 * p) = SubSeq(text, n - 2 * p + 1, n - p)
          /\ SubSeq(text, n - 2 * p + 1, n - p) = SubSeq(text, n - p + 1, n)

\* one more non-empty content arrives in this step, and it is not the sixth
\* of six identical ones (method A)
PatternChunkArrives ==
  /\ tpc = "reading"
  /\ Len(arrived') = Len(arrived) + 1
  /\ ~(/\ Len(arrived) >= 5
       /\ \A k \in (Len(arrived) - 4)..Len(arrived) : arrived[k] = arrived'[Len(arrived')])

WrappedBy(trimmed, q) ==
  /\ Len(trimmed) >= 2
  /\ SubSeq(trimmed, 1, 1) = q[1]
  /\ SubSeq(trimmed, Len(trimmed), Len(trimmed)) = q[2]
  /\ \A k \in 2..(Len(trimmed) - 1) :
       SubSeq(trimmed, k, k) # q[1] /\ SubSeq(trimmed, k, k) # q[2]

\* C32: removeWrappingQuotes returns the enclosed text if and only if the
\* trimmed text is a matching pair of quotes around a text that contains
\* neither quote character, and the text unchanged in every other case
C32_OneWrappingLayerStripped ==
  spc = "unwrapped" =>
    LET trimmed == Trim(sanitizeInput)
    IN IF \E q \in QuotePairs : WrappedBy(trimmed, q)
       THEN unwrapped = SubSeq(trimmed, 2, Len(trimmed) - 1)
       ELSE unwrapped = sanitizeInput

\* the request ended with an error response whose error is one a
\* cancellation raises: the aborted fetch, the signal check of
\* executeWithRetry, or the signal check of translateBatch
EndedByCancellation ==
  /\ hpc = "done"
  /\ aborted
  /\ response.type \in {"TRANSLATE_TEXT_ERROR", "TRANSLATE_PAGE_ERROR"}
  /\ response.message \in {"Translation was cancelled", CancelledError.message,
                           BatchCancelled.message}

\* C33: a request terminated by cancellation is reported with code
\* CANCELLED, never API_ERROR, wherever the abort came
C33_CancellationReportedAsCancelled ==
  EndedByCancellation => response.code = "CANCELLED"

\* C34: once every addItem call has finished, the stored list holds an
\* entry for every item added (the limit left at its default, which the
\* calls followed never reach)
C34_NoHistoryWriteLost ==
  ((\A c \in Callers : addPc[c] = "idle") /\ maxItems = DEFAULT_MAX_ITEMS)
    => \A item \in 1..(nextItem - 1) :
         \E k \in DOMAIN historyItems : historyItems[k] = item

\* C35: every final result event of the request carries the id under which
\* the request was submitted
C35_FinalEventCarriesRequestId ==
  \A k \in DOMAIN events :
    events[k].type \in {"TRANSLATE_TEXT_RESULT", "TRANSLATE_TEXT_STREAM_END"}
      => events[k].requestId = message.requestId

\* the background has finished the sidebar's request and every message it
\* broadcast has reached the sidebar
BackgroundFinished ==
  /\ hpc = "done"
  /\ message.requestId = RequestId
  /\ sbSeen = Len(events)

\* C36: once the background has finished the request with a result or an
\* error and its messages have arrived, the sidebar is not left in progress
\* on that request
C36_SidebarLeavesInProgress ==
  (BackgroundFinished /\ currentRequestId = RequestId)
    => sbStatus \notin {"translating", "streaming"}

\* the sidebar's listener handles one more broadcast in this step
ListenerRuns == sbSeen' = sbSeen + 1

\* C37: a message whose requestId differs from currentRequestId leaves
\* status, outputText, streamingText and history unchanged, and no message
\* moves the store out of cancelled
C37_OnlyCurrentRequestChangesStore ==
  [][ListenerRuns =>
       /\ events[sbSeen'].requestId # currentRequestId
            => UNCHANGED <<sbStatus, outputText, streamingText, sbHistory>>
       /\ sbStatus = "cancelled" => sbStatus' = "cancelled"]_vars

\* the stream-end message of the cancelled request arrived late and was not
\* accepted: nothing was ever completed and the store is still cancelled
C37_Witness ==
  /\ sbStatus = "cancelled"
  /\ sbHistory = << >>
  /\ sbSeen >= 1
  /\ events[sbSeen].type = "TRANSLATE_TEXT_STREAM_END"
  /\ events[sbSeen].requestId = RequestId

\* C38: a cancel of request id aborts no controller but the one created for
\* id, and neither it nor the completion of request id aborts the controller
\* or removes the registry entry of another request
C38_CancellationIsolated ==
  [][\A id \in RequestIds :
       (CancelRequest(id) \/ FinishRequest(id)) =>
          \A other \in RequestIds \ {id} :
             /\ controllers'[other] = controllers[other]
             /\ (other \in registry') <=> (other \in registry)]_vars

\* one request was cancelled and another finished while a third is still
\* running with its entry in the registry
C38_Witness ==
  /\ controllers["r1"] = [handler |-> "running", aborted |-> TRUE]
  /\ controllers["r2"].handler = "finished"
  /\ controllers["r3"] = [handler |-> "running", aborted |-> FALSE]
  /\ registry = {"r3"}


\* C39: a timer scheduled by removeProgressBar before the latest
\* showProgressBar call leaves the bar of that call in the document
C39_EarlierRemovalKeepsLaterBar ==
  [][\A t \in barTimers :
       (TimerFires(t) /\ t.shownFor < shownFor) => barElement' = barElement]_vars

====
